---- MODULE Spec2Model ----
(***************************************************************************)
(* Completeness gate of the due-diligence triage tool.                     *)
(*                                                                         *)
(*   - FinancialCompletenessAnalyzer._calculate_scores, step by step       *)
(*     (SpecFin), and analyze_document called on a document and on a       *)
(*     revision of it (SpecFinPair);                                       *)
(*   - DealCompletenessAnalyzer.analyze_document with                      *)
(*     DealCompletenessAnalysis.validate_completeness (SpecLegal);         *)
(*   - crew_runner.run_pipeline (SpecPipe).                                *)
(*                                                                         *)
(* Text extraction (regular expressions and keyword lists) is abstracted:  *)
(* a document is given by the presence signals the extractors produce.     *)
(***************************************************************************)
EXTENDS Integers, FiniteSets, Sequences, TLC

VARIABLES
    \* ---- financial analyzer (_calculate_scores and its caller) ----
    fpc,                  \* position inside analyze_document/_calculate_scores
    fdoc,                 \* statements, performance, periods, numeric
    fscore,               \* the four sub-scores and the data quality penalty
    total_score,          \* local total_score
    classification,       \* local classification
    fflags,               \* FinancialCompletenessFlags
    fret,                 \* the FinancialCompletenessAnalysis returned
    fprev,                \* the analysis returned by the previous call
    \* ---- legal analyzer ----
    lpc,                  \* position of the legal analysis
    ldoc,                 \* the signals extracted from the document
    analysis,              \* the DealCompletenessAnalysis object
    lprev,                \* the object returned by the previous call
    \* ---- run_pipeline ----
    pipe                  \* the pipeline's inputs, position and calls made

finvars == <<fpc, fdoc, fscore, total_score, classification, fflags, fret, fprev>>
legalvars == <<lpc, ldoc, analysis, lprev>>
vars == <<fpc, fdoc, fscore, total_score, classification, fflags, fret, fprev,
          lpc, ldoc, analysis, lprev, pipe>>

Min(a, b) == IF a <= b THEN a ELSE b
Max(a, b) == IF a >= b THEN a ELSE b
B2N(b) == IF b THEN 1 ELSE 0

NoAnalysis == [status |-> "none"]

(***************************************************************************)
(* Financial completeness: schema                                          *)
(***************************************************************************)
FinancialStatementType ==
    [profit_and_loss_present : BOOLEAN, balance_sheet_present : BOOLEAN,
     cash_flow_present : BOOLEAN, notes_present : BOOLEAN]

PerformanceMetrics ==
    [sales_revenue_present : BOOLEAN, expenses_present : BOOLEAN,
     net_profit_present : BOOLEAN, eps_present : BOOLEAN,
     ebitda_present : BOOLEAN]

PeriodEvidence ==
    [fy_ending_present : BOOLEAN, quarterly_dates_present : BOOLEAN,
     monthly_periods_present : BOOLEAN, year_references_present : BOOLEAN]

NumericEvidence ==
    [substantial_numbers_present : BOOLEAN, currency_amounts_present : BOOLEAN,
     percentages_present : BOOLEAN, ratios_present : BOOLEAN]

\* What the four _analyze_* extractors of analyze_document hand to
\* _calculate_scores.
FinancialSignals ==
    [statements : FinancialStatementType, performance : PerformanceMetrics,
     periods : PeriodEvidence, numeric : NumericEvidence]

performance_items_count(p) ==
    B2N(p.sales_revenue_present) + B2N(p.expenses_present)
    + B2N(p.net_profit_present) + B2N(p.eps_present) + B2N(p.ebitda_present)

has_period_evidence(pe) ==
    \/ pe.fy_ending_present
    \/ pe.quarterly_dates_present
    \/ pe.monthly_periods_present
    \/ pe.year_references_present

numeric_content_score(n) ==
    Min(  (IF n.substantial_numbers_present THEN 8 ELSE 0)
        + (IF n.currency_amounts_present THEN 5 ELSE 0)
        + (IF n.percentages_present THEN 4 ELSE 0)
        + (IF n.ratios_present THEN 3 ELSE 0), 20)

\* Field(ge=0, le=...) of FinancialCompletenessScores: construction raises a
\* validation error outside these ranges.
ScoresFieldsValid(s) ==
    /\ s.financial_statements_score \in 0..30
    /\ s.performance_metrics_score \in 0..25
    /\ s.period_evidence_score \in 0..25
    /\ s.numeric_content_score \in 0..20
    /\ s.overall_score \in 0..100

(***************************************************************************)
(* Financial completeness: _calculate_scores                               *)
(***************************************************************************)
statements_score_of(st) ==
      (IF st.profit_and_loss_present THEN 12 ELSE 0)
    + (IF st.balance_sheet_present THEN 10 ELSE 0)
    + (IF st.cash_flow_present THEN 8 ELSE 0)

\* lines 278-286 with "> 3" in place of ">= 3"
performance_score_of_StrictThree(p) ==
    LET performance_count == performance_items_count(p)
    IN  IF performance_count > 3 THEN 25
        ELSE IF performance_count = 2 THEN 20
        ELSE IF performance_count = 1 THEN 10
        ELSE 0

performance_score_of(p) ==
    LET performance_count == performance_items_count(p)
    IN  IF performance_count >= 3 THEN 25
        ELSE IF performance_count = 2 THEN 20
        ELSE IF performance_count = 1 THEN 10
        ELSE 0

\* lines 288-297 without the min(period_score, 25) of line 298
period_score_of_Uncapped(pe) ==
      (IF pe.fy_ending_present THEN 12 ELSE 0)
    + (IF pe.year_references_present THEN 8 ELSE 0)
    + (IF pe.quarterly_dates_present THEN 4 ELSE 0)
    + (IF pe.monthly_periods_present THEN 3 ELSE 0)

period_score_of(pe) ==
    Min(  (IF pe.fy_ending_present THEN 12 ELSE 0)
        + (IF pe.year_references_present THEN 8 ELSE 0)
        + (IF pe.quarterly_dates_present THEN 4 ELSE 0)
        + (IF pe.monthly_periods_present THEN 3 ELSE 0), 25)

\* lines 304-308 without the penalty of 10 for minimal numeric content
data_quality_penalty_of_FiveOnly(n) ==
    IF ~n.substantial_numbers_present THEN 5 ELSE 0

data_quality_penalty_of(n) ==
    IF ~n.substantial_numbers_present /\ ~n.currency_amounts_present THEN 10
    ELSE IF ~n.substantial_numbers_present THEN 5
    ELSE 0

\* lines 268-312: the sub-scores, the penalty and the total before any rule
SubScores(d) ==
    [statements_score |-> statements_score_of(d.statements),
     performance_score |-> performance_score_of(d.performance),
     period_score |-> period_score_of(d.periods),
     numeric_score |-> numeric_content_score(d.numeric),
     data_quality_penalty |-> data_quality_penalty_of(d.numeric)]

\* total_score without the max(0, ...) of line 312
TotalScore_Unclamped(s) ==
    s.statements_score + s.performance_score + s.period_score
    + s.numeric_score - s.data_quality_penalty

TotalScore(s) ==
    Max(0, s.statements_score + s.performance_score + s.period_score
           + s.numeric_score - s.data_quality_penalty)

\* lines 315-326 with the "not" of missing_period_evidence dropped
FinancialCompletenessFlags_PeriodFlagInverted(d, s) ==
    [no_financial_statements |->
         ~(\/ d.statements.profit_and_loss_present
           \/ d.statements.balance_sheet_present
           \/ d.statements.cash_flow_present),
     insufficient_performance_metrics |->
         performance_items_count(d.performance) < 2,
     missing_period_evidence |-> has_period_evidence(d.periods),
     minimal_numeric_content |->
         ~d.numeric.substantial_numbers_present
         /\ ~d.numeric.currency_amounts_present,
     likely_cover_page_only |->
         s.statements_score = 0 /\ s.performance_score = 0,
     likely_notes_only |-> s.statements_score > 0 /\ s.numeric_score < 5]

\* lines 315-326
FinancialCompletenessFlags(d, s) ==
    [no_financial_statements |->
         ~(\/ d.statements.profit_and_loss_present
           \/ d.statements.balance_sheet_present
           \/ d.statements.cash_flow_present),
     insufficient_performance_metrics |->
         performance_items_count(d.performance) < 2,
     missing_period_evidence |-> ~has_period_evidence(d.periods),
     minimal_numeric_content |->
         ~d.numeric.substantial_numbers_present
         /\ ~d.numeric.currency_amounts_present,
     likely_cover_page_only |->
         s.statements_score = 0 /\ s.performance_score = 0,
     likely_notes_only |-> s.statements_score > 0 /\ s.numeric_score < 5]

\* lines 329-334
ThresholdClassification(total) ==
    IF total >= 80 THEN "accept_ok"
    ELSE IF total >= 55 THEN "accept_with_warnings"
    ELSE "reject_incomplete"

\* lines 337-339 with max in place of min
HardFailRule_Max(flags, cls, total) ==
    IF flags.no_financial_statements /\ flags.insufficient_performance_metrics
    THEN <<"reject_incomplete", Max(total, 25)>>
    ELSE <<cls, total>>

\* lines 337-339, on the pair <<classification, total_score>>
HardFailRule(flags, cls, total) ==
    IF flags.no_financial_statements /\ flags.insufficient_performance_metrics
    THEN <<"reject_incomplete", Min(total, 25)>>
    ELSE <<cls, total>>

\* lines 342-345 without the inner "if total_score < 40"
DemotionRule_NoReject(flags, period_score, cls, total) ==
    IF flags.minimal_numeric_content /\ period_score < 10
    THEN "accept_with_warnings"
    ELSE cls

\* lines 342-345
DemotionRule(flags, period_score, cls, total) ==
    IF flags.minimal_numeric_content /\ period_score < 10
    THEN IF total < 40 THEN "reject_incomplete" ELSE "accept_with_warnings"
    ELSE cls

\* lines 348-355 with period_evidence_score filled from numeric_score
FinancialCompletenessAnalysis_FieldSlip(d, s, flags, cls, total) ==
    LET scores == [financial_statements_score |-> s.statements_score,
                   performance_metrics_score |-> s.performance_score,
                   period_evidence_score |-> s.numeric_score,
                   numeric_content_score |-> s.numeric_score,
                   overall_score |-> total,
                   classification |-> cls]
    IN  IF ScoresFieldsValid(scores)
        THEN [status |-> "ok", doc |-> d, scores |-> scores, flags |-> flags]
        ELSE [status |-> "ValidationError", doc |-> d, scores |-> scores,
              flags |-> flags]

\* lines 348-355 and 102-110: the scores object and the analysis around it;
\* "ValidationError" when a field bound of the scores object is violated
FinancialCompletenessAnalysis(d, s, flags, cls, total) ==
    LET scores == [financial_statements_score |-> s.statements_score,
                   performance_metrics_score |-> s.performance_score,
                   period_evidence_score |-> s.period_score,
                   numeric_content_score |-> s.numeric_score,
                   overall_score |-> total,
                   classification |-> cls]
    IN  IF ScoresFieldsValid(scores)
        THEN [status |-> "ok", doc |-> d, scores |-> scores, flags |-> flags]
        ELSE [status |-> "ValidationError", doc |-> d, scores |-> scores,
              flags |-> flags]

\* analyze_document as one call: the composition of the steps above
FinAnalyzeDocument(d) ==
    LET s == SubScores(d)
        flags == FinancialCompletenessFlags(d, s)
        total0 == TotalScore(s)
        cls0 == ThresholdClassification(total0)
        hf == HardFailRule(flags, cls0, total0)
        cls2 == DemotionRule(flags, s.period_score, hf[1], hf[2])
    IN  FinancialCompletenessAnalysis(d, s, flags, cls2, hf[2])

NoScores ==
    [statements_score |-> 0, performance_score |-> 0, period_score |-> 0,
     numeric_score |-> 0, data_quality_penalty |-> 0]

NoFlags ==
    [no_financial_statements |-> FALSE, insufficient_performance_metrics |-> FALSE,
     missing_period_evidence |-> FALSE, minimal_numeric_content |-> FALSE,
     likely_cover_page_only |-> FALSE, likely_notes_only |-> FALSE]

(***************************************************************************)
(* Legal completeness: the signals of a document                           *)
(*                                                                         *)
(* A document is described by what the extractors of                       *)
(* DealCompletenessAnalyzer find in it.  Signals that validate_completeness*)
(* reads one by one are separate fields; the further signals of a bucket   *)
(* are given by how many of them are hit.                                  *)
(***************************************************************************)
\* sum(hits) >= 2 in every _bucket_* method
HitThreshold == 2

\* how many distinct company-like names the text may hold
MaxEntities == 3

\* how many buckets may be exactly one hit short of the threshold at once
MaxPartialBuckets == 1

EntityNames ==
    <<"Acme Holdings", "Beta Corp", "Gamma Limited", "Delta Group", "Omega Capital">>

Structures ==
    {"asset_purchase", "share_purchase", "merger", "scheme", "tender_offer", "unknown"}

DocTypes ==
    {"spa", "apa", "msa", "loi", "term_sheet", "nda", "teaser", "financials", "other"}

Classifications == {"reject_incomplete", "accept_with_warnings", "accept_ok"}

\* the structures and document types the documents of the model are drawn from
DocStructures == {"unknown", "share_purchase"}
DocDocTypes == {"teaser", "loi", "spa", "other"}

HitBuckets == {"price", "reps", "closing", "indemnities", "financials", "litigation"}

HitProfiles ==
    {h \in [HitBuckets -> 0..HitThreshold] :
        Cardinality({b \in HitBuckets : h[b] = HitThreshold - 1}) <= MaxPartialBuckets}

\* every bucket without a hit, or every bucket at the threshold
UniformProfiles == {[b \in HitBuckets |-> k] : k \in {0, HitThreshold}}

\* Every pattern of _analyze_evidence_strength that needs a digit (dates,
\* percentages) implies numbers_present.  The structures merger and scheme
\* need "merger" or "scheme of arrangement" in the text (lines 247-250), and
\* _analyze_document_metadata finds the same phrase in the text (lines
\* 180-181): the type is msa or one of the types tested before it.
LegalDocsOver(entityCounts, structures, docTypes, flagValues, profiles) ==
    {d \in [entities : {SubSeq(EntityNames, 1, n) : n \in entityCounts},
            structure : structures,
            doc_type : docTypes,
            digits : BOOLEAN, date : BOOLEAN, pct : flagValues,
            defined : BOOLEAN, schedule : BOOLEAN,
            currency : flagValues, disclosure : flagValues, litigation : BOOLEAN,
            hits : profiles] :
        /\ d.date => d.digits
        /\ d.pct => d.digits
        /\ d.structure \in {"merger", "scheme"}
               => d.doc_type \notin {"nda", "financials", "other"}}

LegalDocs ==
    LegalDocsOver(0..MaxEntities, DocStructures, DocDocTypes, BOOLEAN, HitProfiles)

\* _extract_entities: the first three unique names go to buyer, seller, target
extract_entities(unique_entities) ==
    [buyer |-> IF Len(unique_entities) >= 1 THEN unique_entities[1] ELSE "",
     seller |-> IF Len(unique_entities) >= 2 THEN unique_entities[2] ELSE "",
     target |-> IF Len(unique_entities) >= 3 THEN unique_entities[3] ELSE ""]

DefaultScores ==
    [bucket_coverage_score |-> 0, evidence_strength_score |-> 0,
     overall_score |-> 0, classification |-> "reject_incomplete"]

DefaultFlags ==
    [likely_teaser_or_summary |-> FALSE, missing_core_buckets |-> <<>>,
     generic_language_without_details |-> FALSE,
     unsupported_no_litigation_claim |-> FALSE]

\* analyze_document, lines 123-150: the object as it is just before
\* validate_completeness runs (scores and flags still at their defaults).
\* _analyze_deal_info and _analyze_evidence_strength search the same patterns,
\* so the defined-term, schedule and date signals agree between deal and
\* evidence_strength.
BuildAnalysis(d) ==
    [doc_meta |-> [doc_type_guess |-> d.doc_type],
     entities |-> extract_entities(d.entities),
     deal |-> [structure |-> d.structure,
               signing_date |-> IF d.date THEN "15 jan 2024" ELSE "",
               closing_date |-> "",
               effective_date |-> "",
               governing_law |-> "",
               defined_terms_present |-> d.defined,
               schedule_or_exhibit_refs_present |-> d.schedule],
     price_and_payment |->
         [purchase_price_present |-> FALSE,
          currency_present |-> d.currency,
          enterprise_value_present |-> FALSE,
          equity_value_present |-> FALSE,
          adjustment_mechanism_present |-> d.hits["price"] >= 2,
          earnout_present |-> d.hits["price"] >= 1,
          escrow_holdback_present |-> FALSE,
          payment_form |-> "unknown"],
     reps_and_warranties |->
         [section_present |-> d.disclosure /\ d.hits["reps"] >= 2,
          disclosure_schedules_present |-> d.disclosure,
          mae_mac_present |-> d.hits["reps"] >= 2,
          knowledge_qualifiers_present |-> d.hits["reps"] >= 1,
          rep_topics_hit |->
              [authority_organisation |-> FALSE, financial_statements |-> FALSE,
               litigation_investigations |-> FALSE, compliance_with_laws |-> FALSE,
               material_contracts |-> FALSE, tax |-> FALSE,
               employment_benefits |-> FALSE]],
     closing_conditions |->
         [section_present |-> FALSE,
          regulatory_approvals_present |-> FALSE,
          third_party_consents_present |-> d.hits["closing"] >= 1,
          shareholder_board_approval_present |-> FALSE,
          bring_down_present |-> d.hits["closing"] >= 2,
          deliverables_present |-> FALSE,
          no_injunction_present |-> FALSE],
     indemnities_and_limits |->
         [indemnity_present |-> FALSE,
          survival_present |-> d.hits["indemnities"] >= 1,
          basket_present |-> FALSE,
          cap_present |-> d.hits["indemnities"] >= 2,
          fraud_carveout_present |-> FALSE,
          escrow_claims_process_present |-> FALSE,
          rwi_present |-> FALSE],
     financials |->
         [financial_statements_present |-> FALSE,
          audited_unaudited_present |-> d.hits["financials"] >= 2,
          ebitda_present |-> FALSE,
          revenue_recognition_present |-> FALSE,
          forecast_budget_present |-> FALSE,
          qoe_present |-> FALSE],
     capital_and_debt |->
         [cap_table_present |-> FALSE,
          debt_facility_present |-> d.hits["financials"] >= 1],
     litigation_and_allegations |->
         [litigation_present |-> d.litigation,
          allegations_accusations_present |-> FALSE,
          regulatory_investigation_present |-> FALSE,
          settlement_consent_order_present |-> FALSE,
          whistleblower_internal_investigation_present |-> FALSE],
     compliance |->
         [anti_bribery_present |-> d.hits["litigation"] >= 1,
          aml_kyc_sanctions_present |-> FALSE,
          competition_antitrust_present |-> d.hits["litigation"] >= 2],
     evidence_strength |->
         [numbers_present |-> d.digits,
          dates_present |-> d.date,
          percentages_present |-> d.pct,
          defined_term_pattern_present |-> d.defined,
          schedule_exhibit_pattern_present |-> d.schedule],
     scores |-> DefaultScores,
     flags |-> DefaultFlags]

(***************************************************************************)
(* Legal completeness: DealCompletenessAnalysis                            *)
(***************************************************************************)
\* bool(name): a non-empty string
Truthy(str) == str # ""

\* sum(hits) of a list of booleans
SumHits(hits) == Cardinality({i \in DOMAIN hits : hits[i]})

HasDate(a) ==
    \/ Truthy(a.deal.signing_date)
    \/ Truthy(a.deal.closing_date)
    \/ Truthy(a.deal.effective_date)

bucket_a_deal_identity(a) ==
    SumHits(<<Truthy(a.entities.buyer),
              Truthy(a.entities.seller),
              Truthy(a.entities.target),
              a.deal.structure # "unknown",
              HasDate(a),
              Truthy(a.deal.governing_law),
              a.deal.defined_terms_present>>) >= HitThreshold

bucket_b_price_payment(a) ==
    SumHits(<<a.price_and_payment.purchase_price_present,
              a.price_and_payment.currency_present,
              a.price_and_payment.enterprise_value_present,
              a.price_and_payment.equity_value_present,
              a.price_and_payment.adjustment_mechanism_present,
              a.price_and_payment.earnout_present,
              a.price_and_payment.escrow_holdback_present,
              a.price_and_payment.payment_form # "unknown">>) >= HitThreshold

bucket_c_reps_warranties(a) ==
    LET t == a.reps_and_warranties.rep_topics_hit
        rep_topic_hits ==
            SumHits(<<t.authority_organisation, t.financial_statements,
                      t.litigation_investigations, t.compliance_with_laws,
                      t.material_contracts, t.tax, t.employment_benefits>>)
    IN  SumHits(<<a.reps_and_warranties.section_present,
                  a.reps_and_warranties.disclosure_schedules_present,
                  a.reps_and_warranties.mae_mac_present,
                  a.reps_and_warranties.knowledge_qualifiers_present,
                  rep_topic_hits >= 3>>) >= HitThreshold

bucket_e_closing_conditions(a) ==
    SumHits(<<a.closing_conditions.section_present,
              a.closing_conditions.regulatory_approvals_present,
              a.closing_conditions.third_party_consents_present,
              a.closing_conditions.shareholder_board_approval_present,
              a.closing_conditions.bring_down_present,
              a.closing_conditions.deliverables_present,
              a.closing_conditions.no_injunction_present>>) >= HitThreshold

bucket_g_indemnities_limits(a) ==
    SumHits(<<a.indemnities_and_limits.indemnity_present,
              a.indemnities_and_limits.survival_present,
              a.indemnities_and_limits.basket_present,
              a.indemnities_and_limits.cap_present,
              a.indemnities_and_limits.fraud_carveout_present,
              a.indemnities_and_limits.escrow_claims_process_present,
              a.indemnities_and_limits.rwi_present>>) >= HitThreshold

bucket_h_financials(a) ==
    SumHits(<<a.financials.financial_statements_present,
              a.financials.audited_unaudited_present,
              a.financials.ebitda_present,
              a.financials.revenue_recognition_present,
              a.financials.forecast_budget_present,
              a.financials.qoe_present,
              a.capital_and_debt.cap_table_present,
              a.capital_and_debt.debt_facility_present>>) >= HitThreshold

\* _bucket_k_litigation_allegations satisfied by a single hit
bucket_k_litigation_allegations_OneHit(a) ==
    SumHits(<<a.litigation_and_allegations.litigation_present,
              a.litigation_and_allegations.allegations_accusations_present,
              a.litigation_and_allegations.regulatory_investigation_present,
              a.litigation_and_allegations.settlement_consent_order_present,
              a.litigation_and_allegations.whistleblower_internal_investigation_present,
              a.compliance.anti_bribery_present,
              a.compliance.aml_kyc_sanctions_present,
              a.compliance.competition_antitrust_present>>) >= HitThreshold - 1

\* _bucket_k_litigation_allegations with "== 2" in place of ">= 2"
bucket_k_litigation_allegations_ExactlyTwo(a) ==
    SumHits(<<a.litigation_and_allegations.litigation_present,
              a.litigation_and_allegations.allegations_accusations_present,
              a.litigation_and_allegations.regulatory_investigation_present,
              a.litigation_and_allegations.settlement_consent_order_present,
              a.litigation_and_allegations.whistleblower_internal_investigation_present,
              a.compliance.anti_bribery_present,
              a.compliance.aml_kyc_sanctions_present,
              a.compliance.competition_antitrust_present>>) = HitThreshold

bucket_k_litigation_allegations(a) ==
    SumHits(<<a.litigation_and_allegations.litigation_present,
              a.litigation_and_allegations.allegations_accusations_present,
              a.litigation_and_allegations.regulatory_investigation_present,
              a.litigation_and_allegations.settlement_consent_order_present,
              a.litigation_and_allegations.whistleblower_internal_investigation_present,
              a.compliance.anti_bribery_present,
              a.compliance.aml_kyc_sanctions_present,
              a.compliance.competition_antitrust_present>>) >= HitThreshold

bucket_names ==
    <<"deal_identity", "price_payment", "reps_warranties", "closing_conditions",
      "indemnities_limits", "financials", "litigation_claims">>

bucket_results(a) ==
    <<bucket_a_deal_identity(a), bucket_b_price_payment(a),
      bucket_c_reps_warranties(a), bucket_e_closing_conditions(a),
      bucket_g_indemnities_limits(a), bucket_h_financials(a),
      bucket_k_litigation_allegations(a)>>

calculate_bucket_coverage(a) == SumHits(bucket_results(a)) * 10

\* calculate_evidence_strength with the first +6 given for a currency only
calculate_evidence_strength_CurrencyOnly(a) ==
    Min(  (IF a.price_and_payment.currency_present THEN 6 ELSE 0)
        + (IF a.evidence_strength.dates_present \/ HasDate(a) THEN 6 ELSE 0)
        + (IF a.evidence_strength.percentages_present THEN 4 ELSE 0)
        + (IF a.evidence_strength.defined_term_pattern_present
              \/ a.deal.defined_terms_present THEN 7 ELSE 0)
        + (IF a.evidence_strength.schedule_exhibit_pattern_present
              \/ a.deal.schedule_or_exhibit_refs_present THEN 7 ELSE 0), 30)

calculate_evidence_strength(a) ==
    Min(  (IF a.price_and_payment.currency_present \/ a.evidence_strength.numbers_present
           THEN 6 ELSE 0)
        + (IF a.evidence_strength.dates_present \/ HasDate(a) THEN 6 ELSE 0)
        + (IF a.evidence_strength.percentages_present THEN 4 ELSE 0)
        + (IF a.evidence_strength.defined_term_pattern_present
              \/ a.deal.defined_terms_present THEN 7 ELSE 0)
        + (IF a.evidence_strength.schedule_exhibit_pattern_present
              \/ a.deal.schedule_or_exhibit_refs_present THEN 7 ELSE 0), 30)

has_hard_evidence(a) ==
    \/ a.evidence_strength.numbers_present
    \/ a.evidence_strength.dates_present
    \/ a.evidence_strength.schedule_exhibit_pattern_present
    \/ a.evidence_strength.defined_term_pattern_present

parties_present(a) ==
    SumHits(<<Truthy(a.entities.buyer), Truthy(a.entities.seller),
              Truthy(a.entities.target)>>)

\* check_hard_fail_rules with rule 1 asking for one party instead of two
check_hard_fail_rules_OneParty(a) ==
    IF parties_present(a) < 1
    THEN <<TRUE, "No parties: Buyer/seller/target names not found (at least 2 of 3 missing)">>
    ELSE IF a.deal.structure = "unknown"
    THEN <<TRUE, "No transaction structure: No 'asset purchase/share purchase/merger/acquisition' style hits">>
    ELSE IF /\ ~has_hard_evidence(a)
            /\ a.scores.bucket_coverage_score < 30
            /\ a.doc_meta.doc_type_guess \in {"teaser", "other"}
    THEN <<TRUE, "Generic-only indicator: High narrative keywords but missing hard evidence">>
    ELSE IF /\ a.flags.unsupported_no_litigation_claim
            /\ ~a.deal.schedule_or_exhibit_refs_present
            /\ ~a.reps_and_warranties.disclosure_schedules_present
    THEN <<TRUE, "Unsupported 'no litigation' claim without schedule references">>
    ELSE <<FALSE, "">>

\* check_hard_fail_rules without rule 3
check_hard_fail_rules_NoGenericRule(a) ==
    IF parties_present(a) < 2
    THEN <<TRUE, "No parties: Buyer/seller/target names not found (at least 2 of 3 missing)">>
    ELSE IF a.deal.structure = "unknown"
    THEN <<TRUE, "No transaction structure: No 'asset purchase/share purchase/merger/acquisition' style hits">>
    ELSE IF /\ a.flags.unsupported_no_litigation_claim
            /\ ~a.deal.schedule_or_exhibit_refs_present
            /\ ~a.reps_and_warranties.disclosure_schedules_present
    THEN <<TRUE, "Unsupported 'no litigation' claim without schedule references">>
    ELSE <<FALSE, "">>

\* Rules 3 and 4 read self.scores and self.flags as they are when the method
\* is called.
check_hard_fail_rules(a) ==
    IF parties_present(a) < 2
    THEN <<TRUE, "No parties: Buyer/seller/target names not found (at least 2 of 3 missing)">>
    ELSE IF a.deal.structure = "unknown"
    THEN <<TRUE, "No transaction structure: No 'asset purchase/share purchase/merger/acquisition' style hits">>
    ELSE IF /\ ~has_hard_evidence(a)
            /\ a.scores.bucket_coverage_score < 30
            /\ a.doc_meta.doc_type_guess \in {"teaser", "other"}
    THEN <<TRUE, "Generic-only indicator: High narrative keywords but missing hard evidence">>
    ELSE IF /\ a.flags.unsupported_no_litigation_claim
            /\ ~a.deal.schedule_or_exhibit_refs_present
            /\ ~a.reps_and_warranties.disclosure_schedules_present
    THEN <<TRUE, "Unsupported 'no litigation' claim without schedule references">>
    ELSE <<FALSE, "">>

\* detect_teaser_or_loi deciding by the document type alone
detect_teaser_or_loi_TypeOnly(a) ==
    a.doc_meta.doc_type_guess \in {"teaser", "loi", "term_sheet", "other"}

detect_teaser_or_loi(a) ==
    LET is_teaser_type ==
            a.doc_meta.doc_type_guess \in {"teaser", "loi", "term_sheet", "other"}
        missing_indemnities == ~bucket_g_indemnities_limits(a)
        missing_closing_or_reps ==
            ~bucket_e_closing_conditions(a) \/ ~bucket_c_reps_warranties(a)
    IN  is_teaser_type /\ missing_indemnities /\ missing_closing_or_reps

\* [bucket_names[i] for i, present in enumerate(bucket_results) if not present]
MissingBuckets(results) ==
    LET RECURSIVE Collect(_)
        Collect(i) ==
            IF i > Len(bucket_names) THEN <<>>
            ELSE (IF results[i] THEN <<>> ELSE <<bucket_names[i]>>) \o Collect(i + 1)
    IN  Collect(1)

\* lines 449-454 with the reject threshold taken inclusively
ScoreClassification_Inclusive(overall) ==
    IF overall <= 50 THEN "reject_incomplete"
    ELSE IF overall < 70 THEN "accept_with_warnings"
    ELSE "accept_ok"

\* lines 449-454
ScoreClassification(overall) ==
    IF overall < 50 THEN "reject_incomplete"
    ELSE IF overall < 70 THEN "accept_with_warnings"
    ELSE "accept_ok"

HardFailReport(reason) ==
    IF reason = "No parties: Buyer/seller/target names not found (at least 2 of 3 missing)"
    THEN "HARD_FAIL: No parties: Buyer/seller/target names not found (at least 2 of 3 missing)"
    ELSE IF reason = "No transaction structure: No 'asset purchase/share purchase/merger/acquisition' style hits"
    THEN "HARD_FAIL: No transaction structure: No 'asset purchase/share purchase/merger/acquisition' style hits"
    ELSE IF reason = "Generic-only indicator: High narrative keywords but missing hard evidence"
    THEN "HARD_FAIL: Generic-only indicator: High narrative keywords but missing hard evidence"
    ELSE "HARD_FAIL: Unsupported 'no litigation' claim without schedule references"

\* lines 412-426 with the evidence strength score left as computed
HardFailResult_EvidenceKept(a, reason) ==
    [a EXCEPT
        !.scores = [bucket_coverage_score |-> 0,
                    evidence_strength_score |-> calculate_evidence_strength(a),
                    overall_score |-> 0, classification |-> "reject_incomplete"],
        !.flags.likely_teaser_or_summary = TRUE,
        !.flags.missing_core_buckets = <<HardFailReport(reason)>>]

\* validate_completeness, lines 412-426: the hard-fail branch.  The
\* generic_language and unsupported_no_litigation flags keep the values they
\* had before the call.
HardFailResult(a, reason) ==
    [a EXCEPT
        !.scores = [bucket_coverage_score |-> 0, evidence_strength_score |-> 0,
                    overall_score |-> 0, classification |-> "reject_incomplete"],
        !.flags.likely_teaser_or_summary = TRUE,
        !.flags.missing_core_buckets = <<HardFailReport(reason)>>]

\* validate_completeness, lines 428-478: scores, classification and soft flags
ScoredResult(a) ==
    LET bucket == calculate_bucket_coverage(a)
        evidence == calculate_evidence_strength(a)
        overall == bucket + evidence
        teaser == detect_teaser_or_loi(a)
        cls0 == ScoreClassification(overall)
        cls == IF teaser /\ cls0 = "accept_ok" THEN "accept_with_warnings" ELSE cls0
        generic == IF ~has_hard_evidence(a) /\ bucket > 0
                   THEN TRUE ELSE a.flags.generic_language_without_details
        unsupported ==
            IF /\ ~a.litigation_and_allegations.litigation_present
               /\ ~a.deal.schedule_or_exhibit_refs_present
               /\ ~a.reps_and_warranties.disclosure_schedules_present
            THEN TRUE ELSE a.flags.unsupported_no_litigation_claim
    IN  [a EXCEPT
          !.scores = [bucket_coverage_score |-> bucket,
                      evidence_strength_score |-> evidence,
                      overall_score |-> overall,
                      classification |-> cls],
          !.flags = [likely_teaser_or_summary |-> teaser,
                     missing_core_buckets |-> MissingBuckets(bucket_results(a)),
                     generic_language_without_details |-> generic,
                     unsupported_no_litigation_claim |-> unsupported]]

\* validate_completeness: the object after the call
validate_completeness(a) ==
    LET hf == check_hard_fail_rules(a)
    IN  IF hf[1] THEN HardFailResult(a, hf[2]) ELSE ScoredResult(a)

\* DealCompletenessAnalyzer.analyze_document
LegalAnalyzeDocument(d) == validate_completeness(BuildAnalysis(d))

(***************************************************************************)
(* Financial analyzer: one analysis, step by step (SpecFin)                *)
(***************************************************************************)
LegalIdle ==
    /\ lpc = "idle"
    /\ ldoc = NoAnalysis
    /\ analysis = NoAnalysis
    /\ lprev = NoAnalysis

PipeIdle == pipe = [pc |-> "idle"]

FinLocalsInit ==
    /\ fscore = NoScores
    /\ total_score = 0
    /\ classification = "unset"
    /\ fflags = NoFlags
    /\ fret = NoAnalysis
    /\ fprev = NoAnalysis

FinInit ==
    /\ fpc = "start"
    /\ fdoc \in FinancialSignals
    /\ FinLocalsInit
    /\ LegalIdle
    /\ PipeIdle

\* lines 268-326
Fin_CalculateSubScores ==
    /\ fpc = "start"
    /\ fscore' = SubScores(fdoc)
    /\ total_score' = TotalScore(SubScores(fdoc))
    /\ fflags' = FinancialCompletenessFlags(fdoc, SubScores(fdoc))
    /\ fpc' = "scored"
    /\ UNCHANGED <<fdoc, classification, fret, fprev, legalvars, pipe>>

\* lines 329-334
Fin_ClassifyByThreshold ==
    /\ fpc = "scored"
    /\ classification' = ThresholdClassification(total_score)
    /\ fpc' = "classified"
    /\ UNCHANGED <<fdoc, fscore, total_score, fflags, fret, fprev, legalvars, pipe>>

\* lines 337-339
Fin_ApplyHardFailRule ==
    /\ fpc = "classified"
    /\ classification' = HardFailRule(fflags, classification, total_score)[1]
    /\ total_score' = HardFailRule(fflags, classification, total_score)[2]
    /\ fpc' = "hard_fail_checked"
    /\ UNCHANGED <<fdoc, fscore, fflags, fret, fprev, legalvars, pipe>>

\* lines 342-345
Fin_ApplyDemotionRule ==
    /\ fpc = "hard_fail_checked"
    /\ classification' =
           DemotionRule(fflags, fscore.period_score, classification, total_score)
    /\ fpc' = "demotion_checked"
    /\ UNCHANGED <<fdoc, fscore, total_score, fflags, fret, fprev, legalvars, pipe>>

\* lines 348-357 and 102-112
Fin_ReturnAnalysis ==
    /\ fpc = "demotion_checked"
    /\ fret' = FinancialCompletenessAnalysis(fdoc, fscore, fflags, classification,
                                             total_score)
    /\ fpc' = "returned"
    /\ UNCHANGED <<fdoc, fscore, total_score, classification, fflags, fprev,
                   legalvars, pipe>>

FinNext ==
    \/ Fin_CalculateSubScores
    \/ Fin_ClassifyByThreshold
    \/ Fin_ApplyHardFailRule
    \/ Fin_ApplyDemotionRule
    \/ Fin_ReturnAnalysis

SpecFin == FinInit /\ [][FinNext]_vars

(***************************************************************************)
(* Financial analyzer: a document and a revision of it (SpecFinPair)       *)
(***************************************************************************)
\* metrics found in the order sales, expenses, net profit, EPS, EBITDA
PerformancePrefixes ==
    {p \in PerformanceMetrics :
        /\ p.expenses_present => p.sales_revenue_present
        /\ p.net_profit_present => p.expenses_present
        /\ p.eps_present => p.net_profit_present
        /\ p.ebitda_present => p.eps_present}

FinPairDocs ==
    [statements : FinancialStatementType, performance : PerformancePrefixes,
     periods : PeriodEvidence, numeric : NumericEvidence]

\* the same document with its period evidence or its numeric evidence changed
Revisions(d) ==
    {[d EXCEPT !.periods = pe] : pe \in PeriodEvidence}
    \cup {[d EXCEPT !.numeric = nu] : nu \in NumericEvidence}

FinPairInit ==
    /\ fpc = "ready"
    /\ fdoc = NoAnalysis
    /\ FinLocalsInit
    /\ LegalIdle
    /\ PipeIdle

FinPair_AnalyzeDocument ==
    /\ fpc = "ready"
    /\ \E d \in FinPairDocs :
          /\ fdoc' = d
          /\ fret' = FinAnalyzeDocument(d)
    /\ fpc' = "first_returned"
    /\ UNCHANGED <<fscore, total_score, classification, fflags, fprev, legalvars, pipe>>

FinPair_AnalyzeRevision ==
    /\ fpc = "first_returned"
    /\ \E d \in Revisions(fdoc) :
          /\ fdoc' = d
          /\ fret' = FinAnalyzeDocument(d)
    /\ fprev' = fret
    /\ fpc' = "second_returned"
    /\ UNCHANGED <<fscore, total_score, classification, fflags, legalvars, pipe>>

FinPairNext ==
    \/ FinPair_AnalyzeDocument
    \/ FinPair_AnalyzeRevision

SpecFinPair == FinPairInit /\ [][FinPairNext]_vars

(***************************************************************************)
(* Financial analyzer: a document and a document with more signals         *)
(* (SpecFinMore)                                                           *)
(***************************************************************************)
MaxMetrics == 3

FinMoreDocs ==
    {d \in FinPairDocs :
        /\ ~d.statements.notes_present
        /\ performance_items_count(d.performance) <= MaxMetrics}

\* r has every presence signal of q
SignalsKept(q, r) == \A f \in DOMAIN q : q[f] => r[f]

\* the documents in which every presence signal of d is still present
WithMoreSignals(d) ==
    {[statements |-> st, performance |-> p, periods |-> pe, numeric |-> nu] :
        st \in {x \in FinancialStatementType :
                   ~x.notes_present /\ SignalsKept(d.statements, x)},
        p \in {x \in PerformancePrefixes :
                  /\ performance_items_count(x) <= MaxMetrics
                  /\ SignalsKept(d.performance, x)},
        pe \in {x \in PeriodEvidence : SignalsKept(d.periods, x)},
        nu \in {x \in NumericEvidence : SignalsKept(d.numeric, x)}}

FinMoreInit ==
    /\ fpc = "ready"
    /\ fdoc = NoAnalysis
    /\ FinLocalsInit
    /\ LegalIdle
    /\ PipeIdle

FinMore_AnalyzeDocument ==
    /\ fpc = "ready"
    /\ \E d \in FinMoreDocs :
          /\ fdoc' = d
          /\ fret' = FinAnalyzeDocument(d)
    /\ fpc' = "first_returned"
    /\ UNCHANGED <<fscore, total_score, classification, fflags, fprev, legalvars, pipe>>

FinMore_AnalyzeWithMoreSignals ==
    /\ fpc = "first_returned"
    /\ \E d \in WithMoreSignals(fdoc) :
          /\ fdoc' = d
          /\ fret' = FinAnalyzeDocument(d)
    /\ fprev' = fret
    /\ fpc' = "second_returned"
    /\ UNCHANGED <<fscore, total_score, classification, fflags, legalvars, pipe>>

FinMoreNext ==
    \/ FinMore_AnalyzeDocument
    \/ FinMore_AnalyzeWithMoreSignals

SpecFinMore == FinMoreInit /\ [][FinMoreNext]_vars

(***************************************************************************)
(* Legal analyzer: analyze_document (SpecLegal)                            *)
(***************************************************************************)
FinIdle ==
    /\ fpc = "idle"
    /\ fdoc = NoAnalysis
    /\ FinLocalsInit

LegalInit ==
    /\ lpc = "start"
    /\ ldoc \in LegalDocs
    /\ analysis = NoAnalysis
    /\ lprev = NoAnalysis
    /\ FinIdle
    /\ PipeIdle

Legal_AnalyzeDocument ==
    /\ lpc = "start"
    /\ analysis' = LegalAnalyzeDocument(ldoc)
    /\ lpc' = "returned"
    /\ UNCHANGED <<ldoc, lprev, finvars, pipe>>

LegalNext == Legal_AnalyzeDocument

SpecLegal == LegalInit /\ [][LegalNext]_vars

(***************************************************************************)
(* Legal analyzer: the same text analysed twice (SpecLegalTwice)           *)
(*                                                                         *)
(* ldoc.entities is unique_entities, the list that list(set(...)) of       *)
(* _extract_entities yields.  The order of a set of strings follows the    *)
(* string hashes, which the interpreter salts anew in every process: it is *)
(* the same for two calls in one process and any order in another process. *)
(***************************************************************************)
SetOrders(S) ==
    {order \in [1..Cardinality(S) -> S] :
        \A i, j \in 1..Cardinality(S) : i # j => order[i] # order[j]}

HashOrders(names) == SetOrders({names[i] : i \in DOMAIN names})

TwiceDocs ==
    LegalDocsOver(0..MaxEntities, DocStructures, {"spa", "other"}, {FALSE},
                  UniformProfiles)

LegalTwiceInit ==
    /\ lpc = "ready"
    /\ ldoc \in TwiceDocs
    /\ analysis = NoAnalysis
    /\ lprev = NoAnalysis
    /\ FinIdle
    /\ PipeIdle

LegalTwice_Analyze ==
    /\ lpc = "ready"
    /\ analysis' = LegalAnalyzeDocument(ldoc)
    /\ lpc' = "first_returned"
    /\ UNCHANGED <<ldoc, lprev, finvars, pipe>>

\* the second call in the same process: the same hash order
LegalTwice_AnalyzeAgain ==
    /\ lpc = "first_returned"
    /\ lprev' = analysis
    /\ analysis' = LegalAnalyzeDocument(ldoc)
    /\ lpc' = "second_returned"
    /\ UNCHANGED <<ldoc, finvars, pipe>>

\* the second call in another process: whatever order its hash salt gives
LegalTwice_AnalyzeInNewProcess ==
    /\ lpc = "first_returned"
    /\ \E order \in HashOrders(ldoc.entities) :
          /\ ldoc' = [ldoc EXCEPT !.entities = order]
          /\ analysis' = LegalAnalyzeDocument([ldoc EXCEPT !.entities = order])
    /\ lprev' = analysis
    /\ lpc' = "second_returned"
    /\ UNCHANGED <<finvars, pipe>>

LegalTwiceNext ==
    \/ LegalTwice_Analyze
    \/ LegalTwice_AnalyzeAgain
    \/ LegalTwice_AnalyzeInNewProcess

SpecLegalTwice == LegalTwiceInit /\ [][LegalTwiceNext]_vars

(***************************************************************************)
(* _analyze_document_metadata: the document type guess (SpecDocType)       *)
(*                                                                         *)
(* A file name and a text are taken as the sets of the vocabulary phrases  *)
(* they contain; "term in filename_lower or term in text_lower" becomes    *)
(* membership in one of the two sets.                                      *)
(***************************************************************************)
TeaserTerms ==
    {"teaser", "overview", "executive summary", "information memorandum", "cim"}

LoiTerms ==
    {"loi", "letter of intent", "term sheet", "heads of terms",
     "memorandum of understanding", "mou"}

\* the loi list of line 171 without "term sheet"
LoiTerms_WithoutTermSheet ==
    {"loi", "letter of intent", "heads of terms",
     "memorandum of understanding", "mou"}

SpaNameTerms == {"spa", "sale", "purchase", "agreement"}
ApaNameTerms == {"apa", "asset"}
MsaTerms == {"merger", "scheme of arrangement"}
NdaTerms == {"confidentiality", "non-disclosure", "nda"}
FinancialsNameTerms == {"financial", "statement", "audit"}

\* the phrases a file name or a text of the model may contain: one per
\* branch of the chain
Vocabulary ==
    {"overview", "letter of intent", "term sheet", "purchase", "asset",
     "merger", "nda", "audit"}

\* lines 164-186 with a given loi list
doc_type_chain(filename, text, loiTerms) ==
    IF \E term \in TeaserTerms : term \in filename \/ term \in text
    THEN "teaser"
    ELSE IF \E term \in loiTerms : term \in filename \/ term \in text
    THEN "loi"
    ELSE IF "term sheet" \in filename \/ "term sheet" \in text
    THEN "term_sheet"
    ELSE IF \E term \in SpaNameTerms : term \in filename
    THEN "spa"
    ELSE IF \E term \in ApaNameTerms : term \in filename
    THEN "apa"
    ELSE IF \E term \in MsaTerms : term \in filename \/ term \in text
    THEN "msa"
    ELSE IF \E term \in NdaTerms : term \in filename \/ term \in text
    THEN "nda"
    ELSE IF \E term \in FinancialsNameTerms : term \in filename
    THEN "financials"
    ELSE "other"

doc_type_guess_WithoutTermSheet(filename, text) ==
    doc_type_chain(filename, text, LoiTerms_WithoutTermSheet)

\* _analyze_document_metadata, lines 164-186
doc_type_guess(filename, text) == doc_type_chain(filename, text, LoiTerms)

\* the types _analyze_document_metadata returns
GuessedDocTypes ==
    {doc_type_guess(f, t) : f \in SUBSET Vocabulary, t \in SUBSET Vocabulary}

DocTypeInit ==
    /\ lpc = "meta_start"
    /\ ldoc \in [filename : SUBSET Vocabulary, text : SUBSET Vocabulary]
    /\ analysis = NoAnalysis
    /\ lprev = NoAnalysis
    /\ FinIdle
    /\ PipeIdle

DocType_AnalyzeDocumentMetadata ==
    /\ lpc = "meta_start"
    /\ analysis' = [doc_type_guess |-> doc_type_guess(ldoc.filename, ldoc.text)]
    /\ lpc' = "meta_returned"
    /\ UNCHANGED <<ldoc, lprev, finvars, pipe>>

DocTypeNext == DocType_AnalyzeDocumentMetadata

SpecDocType == DocTypeInit /\ [][DocTypeNext]_vars

(***************************************************************************)
(* Legal analyzer over every document type and deal structure              *)
(* (SpecLegalTypes)                                                        *)
(***************************************************************************)
HitBucketOrder ==
    <<"price", "reps", "closing", "indemnities", "financials", "litigation">>

\* the first k buckets of HitBucketOrder at the threshold, the others empty
PrefixProfile(k) ==
    [b \in HitBuckets |->
        IF \E i \in 1..k : HitBucketOrder[i] = b THEN HitThreshold ELSE 0]

PrefixProfiles == {PrefixProfile(k) : k \in 0..Len(HitBucketOrder)}

\* every structure, and every document type the guess can return
TypesDocs ==
    LegalDocsOver(0..MaxEntities, Structures, GuessedDocTypes, BOOLEAN,
                  PrefixProfiles)

LegalTypesInit ==
    /\ lpc = "start"
    /\ ldoc \in TypesDocs
    /\ analysis = NoAnalysis
    /\ lprev = NoAnalysis
    /\ FinIdle
    /\ PipeIdle

SpecLegalTypes == LegalTypesInit /\ [][LegalNext]_vars

(***************************************************************************)
(* validate_completeness called again on the returned object               *)
(* (SpecLegalRevalidate)                                                   *)
(***************************************************************************)
\* a caller invokes validate_completeness on an analysis it was handed
Legal_ValidateAgain ==
    /\ lpc = "returned"
    /\ lprev' = analysis
    /\ analysis' = validate_completeness(analysis)
    /\ lpc' = "revalidated"
    /\ UNCHANGED <<ldoc, finvars, pipe>>

LegalRevalidateNext ==
    \/ Legal_AnalyzeDocument
    \/ Legal_ValidateAgain

SpecLegalRevalidate == LegalTypesInit /\ [][LegalRevalidateNext]_vars

(***************************************************************************)
(* Legal analyzer: a text and the same text with content appended          *)
(* (SpecLegalAppend)                                                       *)
(*                                                                         *)
(* A document carries, next to its signals, its file name and the phrases  *)
(* of its text that decide document type and deal structure, so that       *)
(* appended content can change both.  Appended content is a set of         *)
(* pieces: a piece adds a signal, or it spoils a match that ends where the *)
(* first text ends.                                                        *)
(***************************************************************************)
\* how many pieces the appended content may consist of
MaxAppended == 2

\* _analyze_deal_info, lines 240-253: the first match decides
deal_structure(text) ==
    IF "asset purchase" \in text \/ "asset sale" \in text
    THEN "asset_purchase"
    ELSE IF \/ "share purchase" \in text
            \/ "stock purchase" \in text
            \/ "equity purchase" \in text
    THEN "share_purchase"
    ELSE IF "merger" \in text
    THEN "merger"
    ELSE IF "scheme of arrangement" \in text
    THEN "scheme"
    ELSE IF "tender offer" \in text
    THEN "tender_offer"
    ELSE "unknown"

\* the phrases the text of a document of this specification may contain
AppendPhrases ==
    {"overview", "letter of intent", "confidentiality", "merger",
     "scheme of arrangement", "share purchase", "asset purchase",
     "tender offer"}

\* the company-like names a text of this specification may mention
AppendNames == {EntityNames[i] : i \in 1..MaxEntities}

\* "doc.pdf" and "purchase.pdf"
AppendFileNames == {{}, {"purchase"}}

\* analyze_document, lines 123-131 and 143: document type and deal structure
\* are derived from file name and text, the other signals are those of d
WithText(d, filename, text) ==
    [entities |-> d.entities,
     structure |-> deal_structure(text),
     doc_type |-> doc_type_guess(filename, text),
     digits |-> d.digits, date |-> d.date, pct |-> d.pct,
     defined |-> d.defined, schedule |-> d.schedule,
     currency |-> d.currency, disclosure |-> d.disclosure,
     litigation |-> d.litigation, hits |-> d.hits,
     filename |-> filename, text |-> text]

\* the evidence of the first text: none, or a date with a defined term, or
\* these with a currency code and a schedule reference on top
EvidenceChain(d) ==
    /\ ~d.pct /\ ~d.disclosure /\ ~d.litigation
    /\ d.schedule = d.currency
    /\ d.currency => d.defined
    /\ d.defined = d.date
    /\ d.date = d.digits

\* the bucket hits of the first text: none, the first half or all of the
\* buckets of HitBucketOrder at the threshold
HalfProfiles ==
    {PrefixProfile(k * (Len(HitBucketOrder) \div 2)) : k \in 0..2}

AppendDocs ==
    {WithText(d, filename, text) :
        d \in {x \in LegalDocsOver({2}, {"unknown"}, {"other"}, BOOLEAN,
                                   HalfProfiles) : EvidenceChain(x)},
        filename \in AppendFileNames,
        text \in SUBSET {"letter of intent", "share purchase"}}

FlagNames ==
    {"digits", "date", "pct", "defined", "schedule", "currency", "disclosure",
     "litigation"}

\* the signals whose patterns end in \b (lines 21-39): the match that ends
\* where the first text ends is gone when the appended content starts with a
\* word character.  The percentage pattern ends in \b after "%", which needs
\* a word character inside the first text, and the other signals are
\* substring tests or patterns without a final \b.
TailFlags == {"date", "defined", "schedule", "currency"}

Piece(kind, name, n) == [kind |-> kind, name |-> name, n |-> n]

\* what a piece of appended content does to the signals:
\*   flag   - a match of the pattern or keyword of a flag
\*   hit    - n further keyword hits of a bucket
\*   name   - a mention of a company-like name
\*   phrase - a phrase that decides document type or deal structure
\*   spoil  - the match of a tail pattern at the end of the first text is gone
\*   merge  - the last name match of the first text is extended (the greedy
\*            patterns of lines 208-211): its name, whichever of the names
\*            of the first text it is, is no longer found
SuffixPieces ==
    {Piece("flag", f, 0) : f \in FlagNames}
        \cup {Piece("hit", b, n) : b \in HitBuckets, n \in 1..HitThreshold}
        \cup {Piece("name", e, 0) : e \in AppendNames}
        \cup {Piece("phrase", p, 0) : p \in AppendPhrases}
        \cup {Piece("spoil", f, 0) : f \in TailFlags}
        \cup {Piece("merge", "", 1)}

RECURSIVE PiecesUpTo(_)
PiecesUpTo(k) ==
    IF k = 0 THEN {{}}
    ELSE {{}} \cup {S \cup {p} : S \in PiecesUpTo(k - 1), p \in SuffixPieces}

\* a text has one end: at most one tail match is spoiled.  Both date patterns
\* (lines 36-39) end in a digit and the name patterns (lines 208-211) run
\* over letters, spaces and "&" only, so a text that ends in a date does not
\* end in a name that appended content can extend.  A defined-term, schedule
\* or currency match ends in a letter and can be the end of such a run.
Suffixes ==
    {S \in PiecesUpTo(MaxAppended) :
        /\ Cardinality({p \in S : p.kind = "spoil"}) <= 1
        /\ ~(Piece("spoil", "date", 0) \in S /\ Piece("merge", "", 1) \in S)}

\* re.search over A + suffix: a match of A is found again unless it is
\* spoiled, and a match inside the suffix is found
FlagAfter(d, S, f) ==
    \/ d[f] /\ Piece("spoil", f, 0) \notin S
    \/ Piece("flag", f, 0) \in S

\* a date and a percentage contain digits
DigitsAfter(d, S) ==
    \/ FlagAfter(d, S, "digits")
    \/ Piece("flag", "date", 0) \in S
    \/ Piece("flag", "pct", 0) \in S

HitsAfter(d, S) ==
    [b \in HitBuckets |->
        Min(HitThreshold,
            d.hits[b] + (IF Piece("hit", b, 1) \in S THEN 1 ELSE 0)
                      + (IF Piece("hit", b, 2) \in S THEN 2 ELSE 0))]

NameSet(d) == {d.entities[i] : i \in DOMAIN d.entities}

\* re.findall of lines 214-216 over A + suffix: the names of A, without one
\* of them when the last match is merged, and the names of the suffix
NameSetsAfter(d, S) ==
    LET mentioned == {p.name : p \in {q \in S : q.kind = "name"}}
        kept == IF Piece("merge", "", 1) \in S /\ NameSet(d) # {}
                THEN {NameSet(d) \ {e} : e \in NameSet(d)}
                ELSE {NameSet(d)}
    IN  {k \cup mentioned : k \in kept}

\* list(set(...)) of line 219 over A + suffix, in the process that analysed
\* A: the same set of names is listed in the same order, another set in any
\* order
NamesAfter(d, S) ==
    UNION {IF T = NameSet(d) THEN {d.entities} ELSE SetOrders(T) :
              T \in NameSetsAfter(d, S)}

TextAfter(d, S) == d.text \cup {p.name : p \in {q \in S : q.kind = "phrase"}}

\* the signals of A + suffix with unique_entities = names; the file name
\* stays
AppendTo(d, S, names) ==
    WithText(
        [entities |-> names,
         digits |-> DigitsAfter(d, S),
         date |-> FlagAfter(d, S, "date"),
         pct |-> FlagAfter(d, S, "pct"),
         defined |-> FlagAfter(d, S, "defined"),
         schedule |-> FlagAfter(d, S, "schedule"),
         currency |-> FlagAfter(d, S, "currency"),
         disclosure |-> FlagAfter(d, S, "disclosure"),
         litigation |-> FlagAfter(d, S, "litigation"),
         hits |-> HitsAfter(d, S)],
        d.filename, TextAfter(d, S))

\* the texts obtained from d by appending content
Appended(d) ==
    UNION {{AppendTo(d, S, names) : names \in NamesAfter(d, S)} :
              S \in Suffixes}

LegalAppendInit ==
    /\ lpc = "ready"
    /\ ldoc \in AppendDocs
    /\ analysis = NoAnalysis
    /\ lprev = NoAnalysis
    /\ FinIdle
    /\ PipeIdle

LegalAppend_Analyze ==
    /\ lpc = "ready"
    /\ analysis' = LegalAnalyzeDocument(ldoc)
    /\ lpc' = "first_returned"
    /\ UNCHANGED <<ldoc, lprev, finvars, pipe>>

\* analyze_document on the text with content appended; ldoc then holds the
\* first text and the appended one
LegalAppend_AnalyzeAppended ==
    /\ lpc = "first_returned"
    /\ \E d \in Appended(ldoc) :
          /\ ldoc' = <<ldoc, d>>
          /\ analysis' = LegalAnalyzeDocument(d)
    /\ lprev' = analysis
    /\ lpc' = "second_returned"
    /\ UNCHANGED <<finvars, pipe>>

LegalAppendNext ==
    \/ LegalAppend_Analyze
    \/ LegalAppend_AnalyzeAppended

SpecLegalAppend == LegalAppendInit /\ [][LegalAppendNext]_vars

(***************************************************************************)
(* crew_runner.run_pipeline (SpecPipe)                                     *)
(*                                                                         *)
(* ldoc and fdoc are the legal and the financial signals of the same text; *)
(* analysis is completeness_analysis, fret is financial_completeness.      *)
(* The LLM calls (run_router, run_legal, run_financial) answer             *)
(* nondeterministically.                                                   *)
(***************************************************************************)
\* heuristic_doc_type returns "financial", "contract" or None
HeuristicTypes == {"financial", "contract", "none"}

\* schemas.DocType
RouterDocTypes == {"financial", "contract", "hr_policy", "other"}

RiskLevels == {"Low", "Medium", "High"}

PipeLegalDocs ==
    LegalDocsOver({0, 2}, DocStructures, {"teaser", "spa"}, {FALSE}, UniformProfiles)

\* documents with all or none of the signals of each financial category
AllOrNothing(S) == {r \in S : \A f, g \in DOMAIN r : r[f] = r[g]}

PipeFinDocs ==
    [statements : AllOrNothing(FinancialStatementType),
     performance : AllOrNothing(PerformanceMetrics),
     periods : AllOrNothing(PeriodEvidence),
     numeric : AllOrNothing(NumericEvidence)]

PipeStart(spreadsheet, h) ==
    [pc |-> "start", spreadsheet |-> spreadsheet, h |-> h, router |-> "none",
     called_legal |-> FALSE, called_financial |-> FALSE,
     legal |-> [risk_level |-> "none", incomplete_flag |-> FALSE],
     result |-> "none"]

\* run_pipeline hands the same full_text to both analyzers.  Every pattern of
\* _analyze_period_evidence (lines 196-199) but the quarterly ones, and every
\* test of _analyze_numeric_evidence (lines 231-260) but the one of the
\* currency amounts ("[\d,]+" matches a comma), needs a digit in the text,
\* and numbers_present of the legal analyzer (line 508) is a search for a
\* digit.
SameText(l, f) ==
    (\/ f.periods.fy_ending_present
     \/ f.periods.monthly_periods_present
     \/ f.periods.year_references_present
     \/ f.numeric.substantial_numbers_present
     \/ f.numeric.percentages_present
     \/ f.numeric.ratios_present) => l.digits

\* heuristic_doc_type returns "financial" for every spreadsheet extension
PipeInit ==
    /\ \E spreadsheet \in BOOLEAN, h \in HeuristicTypes :
          /\ spreadsheet => h = "financial"
          /\ pipe = PipeStart(spreadsheet, h)
    /\ ldoc \in PipeLegalDocs
    /\ fdoc \in PipeFinDocs
    /\ SameText(ldoc, fdoc)
    /\ lpc = "pipeline"
    /\ analysis = NoAnalysis
    /\ lprev = NoAnalysis
    /\ fpc = "pipeline"
    /\ FinLocalsInit

\* run_legal followed by the completeness constraint of lines 261-263 / 288-290
LegalFinding(llm_risk, completeness) ==
    IF completeness.scores.classification = "reject_incomplete"
    THEN [risk_level |-> "High", incomplete_flag |-> TRUE]
    ELSE [risk_level |-> llm_risk, incomplete_flag |-> FALSE]

\* lines 211-227
Pipe_SpreadsheetRejected ==
    /\ pipe.pc = "start"
    /\ pipe.spreadsheet
    /\ FinAnalyzeDocument(fdoc).scores.classification = "reject_incomplete"
    /\ fret' = FinAnalyzeDocument(fdoc)
    /\ pipe' = [pipe EXCEPT !.pc = "done", !.result = "financial_rejected"]
    /\ UNCHANGED <<fpc, fdoc, fscore, total_score, classification, fflags, fprev,
                   legalvars>>

\* lines 211-234
Pipe_SpreadsheetFinancial ==
    /\ pipe.pc = "start"
    /\ pipe.spreadsheet
    /\ FinAnalyzeDocument(fdoc).scores.classification # "reject_incomplete"
    /\ fret' = FinAnalyzeDocument(fdoc)
    /\ \E out \in {"financial", "raised"} :
          pipe' = [pipe EXCEPT !.pc = "done", !.called_financial = TRUE,
                               !.result = out]
    /\ UNCHANGED <<fpc, fdoc, fscore, total_score, classification, fflags, fprev,
                   legalvars>>

\* lines 236-254
Pipe_LegalRejected ==
    /\ pipe.pc = "start"
    /\ ~pipe.spreadsheet
    /\ pipe.h # "financial"
    /\ LegalAnalyzeDocument(ldoc).scores.classification = "reject_incomplete"
    /\ analysis' = LegalAnalyzeDocument(ldoc)
    /\ pipe' = [pipe EXCEPT !.pc = "done", !.result = "legal_rejected"]
    /\ UNCHANGED <<lpc, ldoc, lprev, finvars>>

\* lines 256-269 without the early return of lines 245-254 before them
\* (run_legal as in Pipe_HeuristicContract)
Pipe_HeuristicContract_Ungated ==
    /\ pipe.pc = "start"
    /\ ~pipe.spreadsheet
    /\ pipe.h = "contract"
    /\ analysis' = LegalAnalyzeDocument(ldoc)
    /\ \/ \E risk \in RiskLevels :
             pipe' = [pipe EXCEPT !.pc = "done", !.called_legal = TRUE,
                                  !.legal = LegalFinding(risk, LegalAnalyzeDocument(ldoc)),
                                  !.result = "contract"]
       \/ pipe' = [pipe EXCEPT !.pc = "done", !.called_legal = TRUE,
                               !.result = "raised"]
    /\ UNCHANGED <<lpc, ldoc, lprev, finvars>>

\* lines 236-269.  run_legal (lines 151-180) builds its agent, task and crew
\* (lines 152-166) before its try block (lines 168-180): an exception there
\* leaves run_pipeline after the agent was entered and without a finding;
\* an exception inside the try block is turned into a "Medium" finding.
Pipe_HeuristicContract ==
    /\ pipe.pc = "start"
    /\ ~pipe.spreadsheet
    /\ pipe.h = "contract"
    /\ LegalAnalyzeDocument(ldoc).scores.classification # "reject_incomplete"
    /\ analysis' = LegalAnalyzeDocument(ldoc)
    /\ \/ \E risk \in RiskLevels :
             pipe' = [pipe EXCEPT !.pc = "done", !.called_legal = TRUE,
                                  !.legal = LegalFinding(risk, LegalAnalyzeDocument(ldoc)),
                                  !.result = "contract"]
       \/ pipe' = [pipe EXCEPT !.pc = "done", !.called_legal = TRUE,
                               !.result = "raised"]
    /\ UNCHANGED <<lpc, ldoc, lprev, finvars>>

\* lines 236-245 and 271-280
Pipe_HeuristicFinancial ==
    /\ pipe.pc = "start"
    /\ ~pipe.spreadsheet
    /\ pipe.h = "financial"
    /\ analysis' = LegalAnalyzeDocument(ldoc)
    /\ fret' = FinAnalyzeDocument(fdoc)
    /\ \E out \in {"financial", "raised"} :
          pipe' = [pipe EXCEPT !.pc = "done", !.called_financial = TRUE,
                               !.result = out]
    /\ UNCHANGED <<lpc, ldoc, lprev, fpc, fdoc, fscore, total_score, classification, fflags,
                   fprev>>

\* lines 236-245 and 283: the fallback to the LLM router
Pipe_CallRouter ==
    /\ pipe.pc = "start"
    /\ ~pipe.spreadsheet
    /\ pipe.h = "none"
    /\ LegalAnalyzeDocument(ldoc).scores.classification # "reject_incomplete"
    /\ analysis' = LegalAnalyzeDocument(ldoc)
    /\ \/ \E dt \in RouterDocTypes :
             pipe' = [pipe EXCEPT !.pc = "routed", !.router = dt]
       \/ pipe' = [pipe EXCEPT !.pc = "done", !.result = "raised"]
    /\ UNCHANGED <<lpc, ldoc, lprev, finvars>>

\* lines 284-296, run_legal as in Pipe_HeuristicContract
Pipe_RoutedContract ==
    /\ pipe.pc = "routed"
    /\ pipe.router = "contract"
    /\ \/ \E risk \in RiskLevels :
             pipe' = [pipe EXCEPT !.pc = "done", !.called_legal = TRUE,
                                  !.legal = LegalFinding(risk, analysis),
                                  !.result = "contract"]
       \/ pipe' = [pipe EXCEPT !.pc = "done", !.called_legal = TRUE,
                               !.result = "raised"]
    /\ UNCHANGED <<legalvars, finvars>>

\* lines 298-307
Pipe_RoutedFinancial ==
    /\ pipe.pc = "routed"
    /\ pipe.router = "financial"
    /\ fret' = FinAnalyzeDocument(fdoc)
    /\ \E out \in {"financial", "raised"} :
          pipe' = [pipe EXCEPT !.pc = "done", !.called_financial = TRUE,
                               !.result = out]
    /\ UNCHANGED <<fpc, fdoc, fscore, total_score, classification, fflags, fprev,
                   legalvars>>

\* line 309
Pipe_RoutedOther ==
    /\ pipe.pc = "routed"
    /\ pipe.router \notin {"contract", "financial"}
    /\ pipe' = [pipe EXCEPT !.pc = "done", !.result = "unrouted"]
    /\ UNCHANGED <<legalvars, finvars>>

PipeNext ==
    \/ Pipe_SpreadsheetRejected
    \/ Pipe_SpreadsheetFinancial
    \/ Pipe_LegalRejected
    \/ Pipe_HeuristicContract
    \/ Pipe_HeuristicFinancial
    \/ Pipe_CallRouter
    \/ Pipe_RoutedContract
    \/ Pipe_RoutedFinancial
    \/ Pipe_RoutedOther

SpecPipe == PipeInit /\ [][PipeNext]_vars

(***************************************************************************)
(* Properties of the legal analyzer (SpecLegal)                            *)
(***************************************************************************)
ClassRank(c) ==
    CASE c = "reject_incomplete" -> 0
      [] c = "accept_with_warnings" -> 1
      [] c = "accept_ok" -> 2

\* the result carries a "HARD_FAIL: ..." entry instead of bucket names
HardFailReported(a) ==
    \E i \in DOMAIN a.flags.missing_core_buckets :
        a.flags.missing_core_buckets[i]
            \notin {bucket_names[j] : j \in DOMAIN bucket_names}

AllScoresZeroAndRejected(a) ==
    /\ a.scores.bucket_coverage_score = 0
    /\ a.scores.evidence_strength_score = 0
    /\ a.scores.overall_score = 0
    /\ a.scores.classification = "reject_incomplete"

\* what the signals of the returned object would score
BucketsPresent(a) == SumHits(bucket_results(a))

NamesResolved(a) ==
    Cardinality({f \in {"buyer", "seller", "target"} : a.entities[f] # ""})

\* C1: for every legal analysis returned by analyze_document, if no
\* hard-fail rule triggers then overall_score = bucket_coverage_score +
\* evidence_strength_score, and if a hard-fail rule triggers then the three
\* scores are 0 and the classification is reject_incomplete.
C1_ScoresOfReturnedAnalysis ==
    lpc = "returned" =>
        IF check_hard_fail_rules(BuildAnalysis(ldoc))[1]
        THEN AllScoresZeroAndRejected(analysis)
        ELSE analysis.scores.overall_score =
                 analysis.scores.bucket_coverage_score
                 + analysis.scores.evidence_strength_score

\* a hard fail (unknown structure) on a document whose signals alone would
\* have scored 70 + 30
C1_Witness ==
    /\ lpc = "returned"
    /\ check_hard_fail_rules(BuildAnalysis(ldoc))[1]
    /\ Len(ldoc.entities) = 3
    /\ calculate_bucket_coverage(analysis) = 70
    /\ calculate_evidence_strength(analysis) = 30
    /\ AllScoresZeroAndRejected(analysis)

\* C3: hard-fail rule 3 (generic-only) triggers only when no hard evidence
\* signal is present, fewer than 3 of the 7 core buckets are present and the
\* document type is teaser or other; in particular a document with at least
\* 2 party names, a known structure, no hard evidence and type teaser/other
\* but 3 or more core buckets present is not hard-failed.
C3_GenericOnlyNeedsFewBuckets ==
    lpc = "returned" =>
        /\ analysis.flags.missing_core_buckets =
               <<"HARD_FAIL: Generic-only indicator: High narrative keywords but missing hard evidence">>
           => /\ ~has_hard_evidence(analysis)
              /\ BucketsPresent(analysis) < 3
              /\ analysis.doc_meta.doc_type_guess \in {"teaser", "other"}
        /\ (/\ NamesResolved(analysis) >= 2
            /\ analysis.deal.structure # "unknown"
            /\ ~has_hard_evidence(analysis)
            /\ analysis.doc_meta.doc_type_guess \in {"teaser", "other"}
            /\ BucketsPresent(analysis) >= 3)
           => ~HardFailReported(analysis)

\* C4: hard-fail rule 4 is effective within a single analysis: every
\* document that passes rules 1-3 and has no litigation signal, no
\* schedule/exhibit reference and no disclosure-schedule mention is returned
\* as a hard fail (all scores 0, reject_incomplete).
C4_UnsupportedNoLitigationHardFails ==
    (/\ lpc = "returned"
     /\ NamesResolved(analysis) >= 2
     /\ analysis.deal.structure # "unknown"
     /\ ~(/\ ~has_hard_evidence(analysis)
          /\ BucketsPresent(analysis) < 3
          /\ analysis.doc_meta.doc_type_guess \in {"teaser", "other"})
     /\ ~analysis.litigation_and_allegations.litigation_present
     /\ ~analysis.deal.schedule_or_exhibit_refs_present
     /\ ~analysis.reps_and_warranties.disclosure_schedules_present)
    => /\ HardFailReported(analysis)
       /\ AllScoresZeroAndRejected(analysis)

\* C5: when no hard-fail rule triggers, the classification is
\* reject_incomplete iff overall_score < 50, accept_ok iff overall_score >= 70
\* and likely_teaser_or_summary is false, accept_with_warnings otherwise; the
\* only change a soft flag makes to the threshold classification is
\* accept_ok -> accept_with_warnings.
C5_ClassificationOfScore ==
    (lpc = "returned" /\ ~HardFailReported(analysis)) =>
        LET overall == analysis.scores.overall_score
            cls == analysis.scores.classification
            teaser == analysis.flags.likely_teaser_or_summary
            by_threshold == IF overall < 50 THEN "reject_incomplete"
                            ELSE IF overall < 70 THEN "accept_with_warnings"
                            ELSE "accept_ok"
        IN  /\ cls \in Classifications
            /\ cls = "reject_incomplete" <=> overall < 50
            /\ cls = "accept_ok" <=> (overall >= 70 /\ ~teaser)
            /\ ClassRank(cls) <= ClassRank(by_threshold)
            /\ cls # by_threshold =>
                   /\ by_threshold = "accept_ok"
                   /\ cls = "accept_with_warnings"
                   /\ teaser

\* a teaser scoring at least 70 with the other two soft flags raised,
\* returned as accept_with_warnings
C5_Witness ==
    /\ lpc = "returned"
    /\ ~HardFailReported(analysis)
    /\ analysis.scores.overall_score >= 70
    /\ analysis.flags.likely_teaser_or_summary
    /\ analysis.flags.unsupported_no_litigation_claim
    /\ analysis.scores.classification = "accept_with_warnings"

\* C7: with fewer than 2 of buyer/seller/target resolved, or an unknown deal
\* structure, analyze_document returns overall_score 0 and reject_incomplete
\* whatever the other signals are.
C7_NoPartiesOrNoStructureRejects ==
    (/\ lpc = "returned"
     /\ NamesResolved(analysis) < 2 \/ analysis.deal.structure = "unknown")
    => /\ analysis.scores.overall_score = 0
       /\ analysis.scores.classification = "reject_incomplete"

\* one name only, yet all 7 buckets and all five evidence patterns present
C7_Witness ==
    /\ lpc = "returned"
    /\ NamesResolved(analysis) = 1
    /\ analysis.deal.structure # "unknown"
    /\ BucketsPresent(analysis) = 7
    /\ analysis.price_and_payment.currency_present
    /\ analysis.evidence_strength.numbers_present
    /\ analysis.evidence_strength.dates_present
    /\ analysis.evidence_strength.percentages_present
    /\ analysis.evidence_strength.defined_term_pattern_present
    /\ analysis.evidence_strength.schedule_exhibit_pattern_present
    /\ analysis.scores.overall_score = 0
    /\ analysis.scores.classification = "reject_incomplete"

\* how many of the named boolean fields of a record are set
FieldsSet(r, fields) == Cardinality({f \in fields : r[f]})

\* the hit count of each core bucket, read off the returned object
CoreBucketHits(a) ==
    [deal_identity |->
         NamesResolved(a) + B2N(a.deal.structure # "unknown")
         + B2N(a.deal.signing_date # "" \/ a.deal.closing_date # ""
               \/ a.deal.effective_date # "")
         + B2N(a.deal.governing_law # "") + B2N(a.deal.defined_terms_present),
     price_payment |->
         FieldsSet(a.price_and_payment,
                   DOMAIN a.price_and_payment \ {"payment_form"})
         + B2N(a.price_and_payment.payment_form # "unknown"),
     reps_warranties |->
         FieldsSet(a.reps_and_warranties,
                   DOMAIN a.reps_and_warranties \ {"rep_topics_hit"})
         + B2N(FieldsSet(a.reps_and_warranties.rep_topics_hit,
                         DOMAIN a.reps_and_warranties.rep_topics_hit) >= 3),
     closing_conditions |->
         FieldsSet(a.closing_conditions, DOMAIN a.closing_conditions),
     indemnities_limits |->
         FieldsSet(a.indemnities_and_limits, DOMAIN a.indemnities_and_limits),
     financials |->
         FieldsSet(a.financials, DOMAIN a.financials)
         + FieldsSet(a.capital_and_debt, DOMAIN a.capital_and_debt),
     litigation_claims |->
         FieldsSet(a.litigation_and_allegations,
                   DOMAIN a.litigation_and_allegations)
         + FieldsSet(a.compliance, DOMAIN a.compliance)]

CoreBucketsWithTwoHits(a) ==
    LET hits == CoreBucketHits(a)
    IN  Cardinality({b \in DOMAIN hits : hits[b] >= 2})

\* C12: bucket_coverage_score is one of 0, 10, ..., 70 for every legal
\* input, and when no hard-fail rule triggers it is 10 times the number of
\* the 7 core buckets whose hit count is at least 2.
C12_BucketCoverageScore ==
    lpc = "returned" =>
        /\ analysis.scores.bucket_coverage_score \in {10 * n : n \in 0..7}
        /\ ~HardFailReported(analysis) =>
               analysis.scores.bucket_coverage_score
                   = 10 * CoreBucketsWithTwoHits(analysis)

\* three buckets counted, while the litigation bucket has one hit only
C12_Witness ==
    /\ lpc = "returned"
    /\ ~HardFailReported(analysis)
    /\ CoreBucketHits(analysis).litigation_claims = 1
    /\ CoreBucketHits(analysis).price_payment >= 2
    /\ analysis.scores.bucket_coverage_score = 30

\* C13: evidence_strength_score is within 0..30 for every legal input, and
\* when no hard-fail rule triggers it is 6 for a currency or number pattern
\* + 6 for a date pattern + 4 for a percentage pattern + 7 for a defined-term
\* pattern + 7 for a schedule/exhibit reference, capped at 30.
C13_EvidenceStrengthScore ==
    lpc = "returned" =>
        /\ analysis.scores.evidence_strength_score \in 0..30
        /\ ~HardFailReported(analysis) =>
               analysis.scores.evidence_strength_score =
                   Min(30,   6 * B2N(ldoc.currency \/ ldoc.digits)
                           + 6 * B2N(ldoc.date)
                           + 4 * B2N(ldoc.pct)
                           + 7 * B2N(ldoc.defined)
                           + 7 * B2N(ldoc.schedule))

\* a number but no currency, a defined term, nothing else: 6 + 7
C13_Witness ==
    /\ lpc = "returned"
    /\ ~HardFailReported(analysis)
    /\ ldoc.digits /\ ~ldoc.currency
    /\ ldoc.defined
    /\ analysis.scores.evidence_strength_score = 13

(***************************************************************************)
(* Properties of the financial analyzer (SpecFin, SpecFinPair)             *)
(***************************************************************************)
\* Step 3 as the specification words it, signal by signal
Step3Statements(d) ==
      12 * B2N(d.statements.profit_and_loss_present)
    + 10 * B2N(d.statements.balance_sheet_present)
    + 8 * B2N(d.statements.cash_flow_present)

MetricsPresent(d) ==
    Cardinality({f \in DOMAIN d.performance : d.performance[f]})

Step3Performance(d) ==
    CASE MetricsPresent(d) = 0 -> 0
      [] MetricsPresent(d) = 1 -> 10
      [] MetricsPresent(d) = 2 -> 20
      [] OTHER -> 25

Step3Period(d) ==
    Min(25,   12 * B2N(d.periods.fy_ending_present)
            + 8 * B2N(d.periods.year_references_present)
            + 4 * B2N(d.periods.quarterly_dates_present)
            + 3 * B2N(d.periods.monthly_periods_present))

Step3Numeric(d) ==
    Min(20,   8 * B2N(d.numeric.substantial_numbers_present)
            + 5 * B2N(d.numeric.currency_amounts_present)
            + 4 * B2N(d.numeric.percentages_present)
            + 3 * B2N(d.numeric.ratios_present))

Step3Penalty(d) ==
    IF ~d.numeric.substantial_numbers_present /\ ~d.numeric.currency_amounts_present
    THEN 10
    ELSE IF ~d.numeric.substantial_numbers_present THEN 5
    ELSE 0

Step3Total(d) ==
    Max(0, Step3Statements(d) + Step3Performance(d) + Step3Period(d)
           + Step3Numeric(d) - Step3Penalty(d))

Step4Classification(total) ==
    IF total >= 80 THEN "accept_ok"
    ELSE IF total >= 55 THEN "accept_with_warnings"
    ELSE "reject_incomplete"

NoStatementAndFewMetrics(d) ==
    /\ ~d.statements.profit_and_loss_present
    /\ ~d.statements.balance_sheet_present
    /\ ~d.statements.cash_flow_present
    /\ MetricsPresent(d) < 2

\* C2: the second financial hard-fail step only ever demotes: the final
\* classification is never better, in the order reject_incomplete <
\* accept_with_warnings < accept_ok, than the Step 4 threshold classification
\* of the score; a document first classified reject_incomplete is never
\* returned as accept_with_warnings or accept_ok.
C2_DemotionOnlyDemotes ==
    fpc = "returned" =>
        ClassRank(fret.scores.classification)
            <= ClassRank(Step4Classification(Step3Total(fdoc)))

\* C8: with no statement type present and fewer than 2 performance metrics,
\* the classification is reject_incomplete and the score at most 25 after
\* the hard-fail rule, after the demotion rule and in the result returned;
\* likely_cover_page_only implies reject_incomplete.
C8_NoStatementsHardFail ==
    /\ (fpc \in {"hard_fail_checked", "demotion_checked"}
        /\ NoStatementAndFewMetrics(fdoc))
       => (classification = "reject_incomplete" /\ total_score <= 25)
    /\ fpc = "returned" =>
          /\ NoStatementAndFewMetrics(fdoc) =>
                 /\ fret.scores.classification = "reject_incomplete"
                 /\ fret.scores.overall_score <= 25
          /\ fret.flags.likely_cover_page_only =>
                 fret.scores.classification = "reject_incomplete"

\* the hard-fail rule fired and the demotion rule's condition held as well
C8_Witness ==
    /\ fpc = "returned"
    /\ NoStatementAndFewMetrics(fdoc)
    /\ MetricsPresent(fdoc) = 1
    /\ fret.flags.minimal_numeric_content
    /\ fret.scores.period_evidence_score < 10
    /\ fret.scores.overall_score = 15
    /\ fret.scores.classification = "reject_incomplete"

ComponentScores(r) ==
    <<r.scores.financial_statements_score, r.scores.performance_metrics_score,
      r.scores.period_evidence_score, r.scores.numeric_content_score>>

HardFailRule1Outcome(r) ==
    r.flags.no_financial_statements /\ r.flags.insufficient_performance_metrics

\* C9 as stated: two financial results with equal stored component scores
\* and equal hard-fail-rule-1 outcome have equal overall_score.
C9_OverallDeterminedByComponents ==
    (/\ fpc = "second_returned"
     /\ ComponentScores(fret) = ComponentScores(fprev)
     /\ HardFailRule1Outcome(fret) = HardFailRule1Outcome(fprev))
    => fret.scores.overall_score = fprev.scores.overall_score

\* C9, amended: two financial results with equal stored component scores,
\* equal data quality penalty and equal hard-fail-rule-1 outcome have equal
\* overall_score.
C9_OverallDeterminedWithPenalty ==
    (/\ fpc = "second_returned"
     /\ ComponentScores(fret) = ComponentScores(fprev)
     /\ Step3Penalty(fret.doc) = Step3Penalty(fprev.doc)
     /\ HardFailRule1Outcome(fret) = HardFailRule1Outcome(fprev))
    => fret.scores.overall_score = fprev.scores.overall_score

\* two different documents agreeing on components, penalty and hard fail
C9_Witness ==
    /\ fpc = "second_returned"
    /\ fret.doc # fprev.doc
    /\ ComponentScores(fret) = ComponentScores(fprev)
    /\ Step3Penalty(fret.doc) = Step3Penalty(fprev.doc)
    /\ HardFailRule1Outcome(fret) = HardFailRule1Outcome(fprev)
    /\ fret.scores.overall_score = fprev.scores.overall_score
    /\ fret.scores.overall_score > 0

\* C10: for every combination of the presence signals the sub-scores, the
\* penalty and the total before any hard-fail cap equal the Step 3
\* reference, and the result returned stores those sub-scores.
C10_ScoresMatchStep3 ==
    /\ fpc \in {"scored", "classified", "hard_fail_checked", "demotion_checked",
                "returned"}
       => /\ fscore.statements_score = Step3Statements(fdoc)
          /\ fscore.performance_score = Step3Performance(fdoc)
          /\ fscore.period_score = Step3Period(fdoc)
          /\ fscore.numeric_score = Step3Numeric(fdoc)
          /\ fscore.data_quality_penalty = Step3Penalty(fdoc)
    /\ fpc \in {"scored", "classified"} => total_score = Step3Total(fdoc)
    /\ fpc = "returned" =>
          ComponentScores(fret) =
              <<Step3Statements(fdoc), Step3Performance(fdoc),
                Step3Period(fdoc), Step3Numeric(fdoc)>>

\* notes only: every sub-score 0, penalty 10, the total clamped at 0
C10_Witness ==
    /\ fpc = "scored"
    /\ fdoc.statements.notes_present
    /\ fscore.statements_score = 0
    /\ fscore.performance_score + fscore.period_score + fscore.numeric_score = 0
    /\ fscore.data_quality_penalty = 10
    /\ total_score = 0

\* C11: for every financial input the scores object is built within its
\* declared field bounds: 0 <= overall_score <= 100, financial_statements_score
\* in {0,8,10,12,18,20,22,28,30}, performance_metrics_score in 0..25,
\* period_evidence_score in 0..25, numeric_content_score in 0..20, so
\* analyze_document never fails on range validation.
C11_ScoresWithinFieldBounds ==
    /\ fpc \in {"scored", "classified", "hard_fail_checked", "demotion_checked"}
       => total_score \in 0..100
    /\ fpc = "returned" =>
          /\ fret.status = "ok"
          /\ fret.scores.overall_score \in 0..100
          /\ fret.scores.financial_statements_score
                 \in {0, 8, 10, 12, 18, 20, 22, 28, 30}
          /\ fret.scores.performance_metrics_score \in 0..25
          /\ fret.scores.period_evidence_score \in 0..25
          /\ fret.scores.numeric_content_score \in 0..20

\* every signal present: the period sum 27 is capped and the total is 100
C11_Witness ==
    /\ fpc = "returned"
    /\ fret.status = "ok"
    /\ \A f \in DOMAIN fdoc.periods : fdoc.periods[f]
    /\ fret.scores.period_evidence_score = 25
    /\ fret.scores.financial_statements_score = 30
    /\ fret.scores.overall_score = 100

\* C21 as stated: when hard-fail rule 1 triggers, the four component scores
\* of the returned result are 0 and the classification is reject_incomplete.
C21_HardFailZeroesComponents ==
    (/\ fpc = "returned"
     /\ NoStatementAndFewMetrics(fdoc))
        => /\ ComponentScores(fret) = <<0, 0, 0, 0>>
           /\ fret.scores.classification = "reject_incomplete"

\* C21 (amended): when hard-fail rule 1 triggers, the classification is
\* reject_incomplete and overall_score is the Step 3 total capped at 25; the
\* component scores keep their Step 3 values (statements 0, performance 0
\* or 10, period and numeric as scored).
C21_HardFailCapsTotalKeepsComponents ==
    (/\ fpc = "returned"
     /\ NoStatementAndFewMetrics(fdoc))
        => /\ fret.scores.classification = "reject_incomplete"
           /\ fret.scores.overall_score = Min(25, Step3Total(fdoc))
           /\ ComponentScores(fret) =
                  <<0, 10 * MetricsPresent(fdoc), Step3Period(fdoc),
                    Step3Numeric(fdoc)>>

\* one metric, full period and numeric evidence: components 0, 10, 25, 20
\* and the total 55 capped at 25
C21_Witness ==
    /\ fpc = "returned"
    /\ NoStatementAndFewMetrics(fdoc)
    /\ ComponentScores(fret) = <<0, 10, 25, 20>>
    /\ fret.scores.overall_score = 25
    /\ fret.scores.classification = "reject_incomplete"

\* the two override rules applied in the other order: the demotion rule on
\* the threshold classification first, the hard-fail rule second
SwappedOverrides(d) ==
    LET s == SubScores(d)
        total == TotalScore(s)
        flags == FinancialCompletenessFlags(d, s)
        demoted == DemotionRule(flags, s.period_score,
                                ThresholdClassification(total), total)
    IN  HardFailRule(flags, demoted, total)

\* the pair <<classification, overall_score>> of analyze_document
ReturnedOutcome(d) ==
    <<FinAnalyzeDocument(d).scores.classification,
      FinAnalyzeDocument(d).scores.overall_score>>

\* C25 as stated: the order of the two financial override rules is
\* observable: for at least one combination of financial signals the
\* demotion rule applied before the hard-fail override gives another
\* (classification, overall_score) than the hard-fail override applied first.
\* (The combination need not be the document just analysed.)
C25_RuleOrderIsObservable ==
    fpc = "returned" =>
        \E d \in FinancialSignals : SwappedOverrides(d) # ReturnedOutcome(d)

\* C25 (amended): the order of the two override rules is not observable:
\* for every combination of signals the demotion rule applied before the
\* hard-fail override gives the (classification, overall_score) returned.
C25_RuleOrderIsNotObservable ==
    fpc = "returned" =>
        SwappedOverrides(fdoc)
            = <<fret.scores.classification, fret.scores.overall_score>>

\* both rules apply to the document
C25_Witness ==
    /\ fpc = "returned"
    /\ NoStatementAndFewMetrics(fdoc)
    /\ fret.flags.minimal_numeric_content
    /\ fret.scores.period_evidence_score < 10
    /\ Step3Total(fdoc) = 15
    /\ SwappedOverrides(fdoc) = <<"reject_incomplete", 15>>
    /\ fret.scores.classification = "reject_incomplete"

\* C28: whenever minimal_numeric_content holds and period_score < 10 the
\* score is at most 60, so at the point where the demotion rule runs the
\* classification is never accept_ok and the rule never demotes an
\* accept_ok.
C28_DemotionNeverMeetsAcceptOk ==
    /\ (/\ fpc \in {"scored", "classified", "hard_fail_checked"}
        /\ fflags.minimal_numeric_content
        /\ fscore.period_score < 10)
       => /\ total_score <= 60
          /\ classification # "accept_ok"
    /\ (/\ fpc = "returned"
        /\ fret.flags.minimal_numeric_content
        /\ fret.scores.period_evidence_score < 10)
       => fret.scores.overall_score <= 60

\* the demotion rule is about to run on the highest score it can meet
C28_Witness ==
    /\ fpc = "hard_fail_checked"
    /\ fflags.minimal_numeric_content
    /\ fscore.period_score = 8
    /\ total_score = 60
    /\ classification = "accept_with_warnings"

\* C20: a financial document with P&L, balance sheet and cash flow, at
\* least 3 performance metrics, FY-ending evidence plus multi-year
\* references and substantial numbers gets overall_score >= 80 and the
\* final classification accept_ok, whatever its remaining signals are.
C20_FullStatementsAreAccepted ==
    (/\ fpc = "returned"
     /\ fdoc.statements.profit_and_loss_present
     /\ fdoc.statements.balance_sheet_present
     /\ fdoc.statements.cash_flow_present
     /\ MetricsPresent(fdoc) >= 3
     /\ fdoc.periods.fy_ending_present
     /\ fdoc.periods.year_references_present
     /\ fdoc.numeric.substantial_numbers_present)
        => /\ fret.status = "ok"
           /\ fret.scores.overall_score >= 80
           /\ fret.scores.classification = "accept_ok"

\* exactly three metrics and none of the remaining signals: 30 + 25 + 20 + 8
C20_Witness ==
    /\ fpc = "returned"
    /\ fdoc.statements.profit_and_loss_present
    /\ fdoc.statements.balance_sheet_present
    /\ fdoc.statements.cash_flow_present
    /\ ~fdoc.statements.notes_present
    /\ MetricsPresent(fdoc) = 3
    /\ fdoc.periods.fy_ending_present
    /\ fdoc.periods.year_references_present
    /\ ~fdoc.periods.quarterly_dates_present
    /\ ~fdoc.periods.monthly_periods_present
    /\ fdoc.numeric.substantial_numbers_present
    /\ ~fdoc.numeric.currency_amounts_present
    /\ ~fdoc.numeric.percentages_present
    /\ ~fdoc.numeric.ratios_present
    /\ fret.scores.overall_score = 83
    /\ fret.scores.classification = "accept_ok"

(***************************************************************************)
(* Properties of run_pipeline (SpecPipe)                                   *)
(***************************************************************************)
\* C6: no LLM agent is invoked on a document that failed its completeness
\* gate: whenever run_financial was called the financial completeness
\* classification is not reject_incomplete, and whenever run_legal was
\* called the legal completeness classification is not reject_incomplete.
C6_AgentsOnlyBehindTheGate ==
    lpc = "pipeline" =>
        /\ pipe.called_financial =>
               fret.scores.classification # "reject_incomplete"
        /\ pipe.called_legal =>
               analysis.scores.classification # "reject_incomplete"

\* C30: run_pipeline never returns a legal finding that was post-processed
\* for incompleteness: whenever run_legal was called the legal completeness
\* classification is not reject_incomplete, and the finding carries the
\* classification is not reject_incomplete, no finding carries the
\* "INCOMPLETE DOCUMENT" red flag, and a returned finding carries the risk
\* level of run_legal (a run in which run_legal raised returns no finding).
C30_LegalFindingNeverMarkedIncomplete ==
    (lpc = "pipeline" /\ pipe.called_legal) =>
        /\ analysis.scores.classification # "reject_incomplete"
        /\ ~pipe.legal.incomplete_flag
        /\ pipe.result = "contract" => pipe.legal.risk_level \in RiskLevels
        /\ pipe.result = "raised" => pipe.legal.risk_level = "none"

\* a contract routed by the LLM router and accepted by the gate, whose
\* finding keeps the risk level Low of run_legal
C30_Witness ==
    /\ lpc = "pipeline"
    /\ pipe.pc = "done"
    /\ pipe.called_legal
    /\ pipe.router = "contract"
    /\ pipe.result = "contract"
    /\ analysis.scores.classification = "accept_ok"
    /\ pipe.legal = [risk_level |-> "Low", incomplete_flag |-> FALSE]

\* the extractors found nothing at all
NoLegalSignal(d) ==
    /\ d.entities = <<>>
    /\ d.structure = "unknown"
    /\ ~(d.digits \/ d.date \/ d.pct \/ d.defined \/ d.schedule)
    /\ ~(d.currency \/ d.disclosure \/ d.litigation)
    /\ \A b \in HitBuckets : d.hits[b] = 0

NoFinancialSignal(d) ==
    \A c \in DOMAIN d : \A f \in DOMAIN d[c] : ~d[c][f]

\* C14: on a text without any signal both analyzers return a result without
\* raising: every component score and the overall score are 0 and the
\* classification is reject_incomplete; the legal result carries the
\* hard-fail reason in its flags, the financial result has
\* no_financial_statements, insufficient_performance_metrics,
\* missing_period_evidence and minimal_numeric_content all true.
C14_EmptyTextIsRejectedWithReasons ==
    lpc = "pipeline" =>
        /\ (analysis # NoAnalysis /\ NoLegalSignal(ldoc)) =>
               /\ AllScoresZeroAndRejected(analysis)
               /\ HardFailReported(analysis)
               /\ Len(analysis.flags.missing_core_buckets) = 1
        /\ (fret # NoAnalysis /\ NoFinancialSignal(fdoc)) =>
               /\ fret.status = "ok"
               /\ ComponentScores(fret) = <<0, 0, 0, 0>>
               /\ fret.scores.overall_score = 0
               /\ fret.scores.classification = "reject_incomplete"
               /\ fret.flags.no_financial_statements
               /\ fret.flags.insufficient_performance_metrics
               /\ fret.flags.missing_period_evidence
               /\ fret.flags.minimal_numeric_content

\* the same empty text went through both analyzers
C14_Witness ==
    /\ lpc = "pipeline"
    /\ pipe.pc = "done"
    /\ NoLegalSignal(ldoc)
    /\ NoFinancialSignal(fdoc)
    /\ analysis # NoAnalysis
    /\ fret # NoAnalysis
    /\ analysis.scores.overall_score = 0
    /\ fret.scores.overall_score = 0

(***************************************************************************)
(* Properties of repeated legal analyses (SpecLegalTwice)                  *)
(***************************************************************************)
\* C15: analyze is deterministic: two calls of analyze_document on the same
\* (filename, text) return results identical in every field, including which
\* company name is assigned to buyer, to seller and to target.
C15_SameTextSameResult ==
    lpc = "second_returned" => analysis = lprev

(***************************************************************************)
(* Properties of a financial document and one with more signals            *)
(* (SpecFinMore)                                                           *)
(***************************************************************************)
\* C17: when every presence signal of the first document is also present
\* in the second, the second overall_score is at least the first.
C17_MoreSignalsNeverLowerScore ==
    fpc = "second_returned"
        => fret.scores.overall_score >= fprev.scores.overall_score

\* the first document is capped by hard-fail rule 1 and loses points to the
\* data quality penalty; the second has more signals, no cap, no penalty
C17_Witness ==
    /\ fpc = "second_returned"
    /\ fret.doc # fprev.doc
    /\ fprev.flags.no_financial_statements
    /\ fprev.flags.insufficient_performance_metrics
    /\ fprev.flags.minimal_numeric_content
    /\ fprev.scores.overall_score = 25
    /\ ~fret.flags.no_financial_statements
    /\ ~fret.flags.minimal_numeric_content
    /\ fret.scores.overall_score > 25

\* C27: adding evidence never worsens the financial classification: when
\* every presence signal of the first document is also present in the
\* second, the second classification is at least as good as the first in
\* the order reject_incomplete < accept_with_warnings < accept_ok.
C27_MoreSignalsNeverWorsenClassification ==
    fpc = "second_returned"
        => ClassRank(fret.scores.classification)
               >= ClassRank(fprev.scores.classification)

(***************************************************************************)
(* Properties of legal analyses over every document type (SpecLegalTypes)  *)
(***************************************************************************)
\* C18: a legal document with at least 2 resolved party names, a resolved
\* deal structure, all 7 core buckets present and date, defined-term and
\* schedule-reference evidence gets bucket_coverage_score 70,
\* evidence_strength_score >= 20 and classification accept_ok; it is not
\* hard-failed and not flagged as a teaser, whatever its document type.
C18_CompleteDocumentIsAccepted ==
    (/\ lpc = "returned"
     /\ NamesResolved(analysis) >= 2
     /\ ldoc.structure # "unknown"
     /\ CoreBucketsWithTwoHits(analysis) = 7
     /\ ldoc.date /\ ldoc.defined /\ ldoc.schedule)
        => /\ analysis.scores.bucket_coverage_score = 70
           /\ analysis.scores.evidence_strength_score >= 20
           /\ analysis.scores.classification = "accept_ok"
           /\ ~HardFailReported(analysis)
           /\ ~analysis.flags.likely_teaser_or_summary

\* a complete document of exactly two names guessed as a teaser, without a
\* litigation disclosure
C18_Witness ==
    /\ lpc = "returned"
    /\ NamesResolved(analysis) = 2
    /\ ldoc.structure = "tender_offer"
    /\ ldoc.doc_type = "teaser"
    /\ CoreBucketsWithTwoHits(analysis) = 7
    /\ ldoc.date /\ ldoc.defined /\ ldoc.schedule
    /\ ~ldoc.litigation /\ ~ldoc.disclosure /\ ~ldoc.pct /\ ~ldoc.currency
    /\ analysis.scores.overall_score = 96
    /\ analysis.scores.classification = "accept_ok"

\* C19: a legal document with no hard-evidence signal (no numbers, dates,
\* schedule/exhibit references or defined-term patterns), fewer than 3 core
\* buckets present and document type teaser is rejected by a hard fail:
\* overall_score 0, reject_incomplete, likely_teaser_or_summary true.
C19_GenericTeaserIsHardFailed ==
    (/\ lpc = "returned"
     /\ ~ldoc.digits /\ ~ldoc.date /\ ~ldoc.schedule /\ ~ldoc.defined
     /\ CoreBucketsWithTwoHits(analysis) < 3
     /\ ldoc.doc_type = "teaser")
        => /\ HardFailReported(analysis)
           /\ analysis.scores.overall_score = 0
           /\ analysis.scores.classification = "reject_incomplete"
           /\ analysis.flags.likely_teaser_or_summary

\* parties and structure are there, so that rule 3 is the rule that fires
C19_Witness ==
    /\ lpc = "returned"
    /\ ~ldoc.digits /\ ~ldoc.date /\ ~ldoc.schedule /\ ~ldoc.defined
    /\ ldoc.currency
    /\ Len(ldoc.entities) >= 2
    /\ ldoc.structure = "merger"
    /\ CoreBucketsWithTwoHits(analysis) = 2
    /\ ldoc.doc_type = "teaser"
    /\ analysis.flags.missing_core_buckets =
           <<HardFailReport("Generic-only indicator: High narrative keywords but missing hard evidence")>>
    /\ analysis.scores.overall_score = 0
    /\ analysis.flags.likely_teaser_or_summary

\* the core buckets that have fewer than two hits in the returned object
AbsentCoreBuckets(a) ==
    LET hits == CoreBucketHits(a)
    IN  {b \in DOMAIN hits : hits[b] < 2}

\* C22: in every returned legal analysis likely_teaser_or_summary is true
\* exactly when the document type is teaser, loi, term_sheet or other, the
\* indemnities bucket is absent and the closing-conditions or the
\* reps-and-warranties bucket is absent; on hard-fail results as well.
C22_TeaserFlagFollowsItsDefinition ==
    lpc = "returned" =>
        (analysis.flags.likely_teaser_or_summary
            <=> /\ ldoc.doc_type \in {"teaser", "loi", "term_sheet", "other"}
                /\ "indemnities_limits" \in AbsentCoreBuckets(analysis)
                /\ \/ "closing_conditions" \in AbsentCoreBuckets(analysis)
                   \/ "reps_warranties" \in AbsentCoreBuckets(analysis))

\* C23: in every returned legal analysis missing_core_buckets holds exactly
\* the names of the core buckets that are not present: every element is a
\* bucket name, no present bucket is listed, every absent one is, and the
\* length is 7 minus the number of present buckets.
C23_MissingBucketsAreTheAbsentOnes ==
    lpc = "returned" =>
        LET missing == analysis.flags.missing_core_buckets
        IN  /\ {missing[i] : i \in DOMAIN missing} = AbsentCoreBuckets(analysis)
            /\ Len(missing) = 7 - CoreBucketsWithTwoHits(analysis)

(***************************************************************************)
(* Properties of a legal text and its extension (SpecLegalAppend)          *)
(***************************************************************************)
\* every keyword/pattern signal of the first text is found in the second
AppendKeepsSignals(a, b) ==
    /\ \A i \in DOMAIN a.entities : \E j \in DOMAIN b.entities :
          b.entities[j] = a.entities[i]
    /\ \A f \in FlagNames : a[f] => b[f]
    /\ \A bucket \in HitBuckets : b.hits[bucket] >= a.hits[bucket]
    /\ a.text \subseteq b.text
    /\ a.filename = b.filename

\* C16 as stated: when the first text is not hard-failed and the second is
\* the first with content appended that keeps every signal of the first,
\* the second never has a lower overall_score.
C16_AppendNeverLowersScore ==
    (/\ lpc = "second_returned"
     /\ AppendKeepsSignals(ldoc[1], ldoc[2])
     /\ ~HardFailReported(lprev))
        => analysis.scores.overall_score >= lprev.scores.overall_score

\* C16 (amended): when neither the first text nor the text with content
\* appended is returned as a hard fail, and every signal of the first is
\* kept, the appended text never has a lower overall_score.
C16_AppendNeverLowersScoreUnlessHardFail ==
    (/\ lpc = "second_returned"
     /\ AppendKeepsSignals(ldoc[1], ldoc[2])
     /\ ~HardFailReported(lprev)
     /\ ~HardFailReported(analysis))
        => analysis.scores.overall_score >= lprev.scores.overall_score

C16_Witness ==
    /\ lpc = "second_returned"
    /\ AppendKeepsSignals(ldoc[1], ldoc[2])
    /\ ~HardFailReported(lprev)
    /\ ~HardFailReported(analysis)
    /\ analysis.doc_meta.doc_type_guess # lprev.doc_meta.doc_type_guess
    /\ analysis.scores.overall_score > lprev.scores.overall_score

(***************************************************************************)
(* Properties of entity resolution (SpecLegalTwice)                        *)
(***************************************************************************)
\* the distinct names of a text in the order the text mentions them
\* (EntityNames lists the names in that order)
EncounterOrder(names) ==
    SelectSeq(EntityNames, LAMBDA n : \E i \in DOMAIN names : names[i] = n)

\* C24: the first three distinct company-like matches are assigned, in the
\* order the text mentions them, to buyer, seller and target: the buyer is
\* the earliest match, the seller the second, the target the third.
C24_EntitiesInEncounterOrder ==
    lpc \in {"first_returned", "second_returned"} =>
        LET enc == EncounterOrder(ldoc.entities)
        IN  /\ analysis.entities.buyer = (IF Len(enc) >= 1 THEN enc[1] ELSE "")
            /\ analysis.entities.seller = (IF Len(enc) >= 2 THEN enc[2] ELSE "")
            /\ analysis.entities.target = (IF Len(enc) >= 3 THEN enc[3] ELSE "")

(***************************************************************************)
(* Properties of a repeated validation (SpecLegalRevalidate)               *)
(***************************************************************************)
\* C26: validate_completeness is idempotent: a second call on an object
\* that has already been validated leaves the three scores, the
\* classification and the four flags unchanged.
C26_ValidateIsIdempotent ==
    lpc = "revalidated" =>
        /\ analysis.scores = lprev.scores
        /\ analysis.flags = lprev.flags

(***************************************************************************)
(* Properties of the document type guess (SpecDocType)                     *)
(***************************************************************************)
\* C29: the document type guess is never term_sheet, and every input whose
\* file name or text contains "term sheet" is guessed as teaser or loi.
C29_TermSheetIsNeverGuessed ==
    lpc = "meta_returned" =>
        /\ analysis.doc_type_guess # "term_sheet"
        /\ ("term sheet" \in ldoc.filename \cup ldoc.text)
               => analysis.doc_type_guess \in {"teaser", "loi"}

\* "term sheet" in the text and no teaser or other loi term anywhere
C29_Witness ==
    /\ lpc = "meta_returned"
    /\ "term sheet" \in ldoc.text
    /\ (ldoc.filename \cup ldoc.text) \cap (TeaserTerms \cup LoiTerms)
           = {"term sheet"}
    /\ analysis.doc_type_guess = "loi"

====
